---- MODULE Spec2Model ----
(***************************************************************************)
(* Citation-source verification engine of the CitationSourceVerifier       *)
(* component (frontend/src/components/LibrarySourceModal.jsx, l. 200-630). *)
(*                                                                         *)
(* JavaScript strings are sequences of UTF-16 code units (naturals), so    *)
(* that lower-casing, trimming, the regular expressions and substring are  *)
(* computed, not assumed.  A JavaScript value is a tagged record:          *)
(* Undefined, Str(s) or Num(n).  JS offsets are 0-based, TLA+ sequences    *)
(* are 1-based: offset = index - 1.                                        *)
(***************************************************************************)
EXTENDS Integers, Sequences, FiniteSets, TLC

----------------------------------------------------------------------------
(* JavaScript values *)

Undefined == [t |-> "undefined"]
Str(s) == [t |-> "string", v |-> s]
Num(n) == [t |-> "number", v |-> n]

IsString(x) == x.t = "string"

\* JS truthiness of the values used here: '' , 0 and undefined are falsy.
Truthy(x) ==
    \/ x.t = "string" /\ x.v # <<>>
    \/ x.t = "number" /\ x.v # 0

Min(a, b) == IF a < b THEN a ELSE b
Max(a, b) == IF a > b THEN a ELSE b

\* String.prototype.substring(from, to) with 0-based offsets, 0 <= from.
Substring(s, from, to) == SubSeq(s, Min(from, Len(s)) + 1, Min(to, Len(s)))

----------------------------------------------------------------------------
(* Character classes *)

IsDigit(c) == c \in 48..57

\* White space removed by String.prototype.trim().
IsSpace(c) == c \in {9, 10, 11, 12, 13, 32, 160, 8232, 8233, 65279}

\* The class [a-ya yo] of the keyword pattern: U+0430..U+044F and U+0451.
IsCyrLower(c) == c \in 1072..1103 \/ c = 1105

\* String.prototype.toLowerCase() on one code unit (Latin and Russian).
LowerChar(c) ==
    IF c \in 65..90 THEN c + 32
    ELSE IF c \in 1040..1071 THEN c + 32
    ELSE IF c = 1025 THEN 1105
    ELSE c

toLowerCase(s) == [k \in 1..Len(s) |-> LowerChar(s[k])]

\* String.prototype.trim()
trim(s) ==
    LET nonSpace == {k \in 1..Len(s) : ~IsSpace(s[k])}
    IN  IF nonSpace = {} THEN <<>>
        ELSE LET lo == CHOOSE k \in nonSpace : \A m \in nonSpace : k <= m
                 hi == CHOOSE k \in nonSpace : \A m \in nonSpace : k >= m
             IN  SubSeq(s, lo, hi)

----------------------------------------------------------------------------
(* extractCitationNumber: text.match(/\[(\d+)\]/), parseInt of group 1 *)

\* "return null" of extractCitationNumber; parseInt of \d+ is never negative.
NullNumber == -1

\* Index just behind the run of digits that starts at index p.
RECURSIVE DigitRunEnd(_, _)
DigitRunEnd(s, p) ==
    IF p <= Len(s) /\ IsDigit(s[p]) THEN DigitRunEnd(s, p + 1) ELSE p

\* The pattern \[(\d+)\] matches at index p.
MarkerAt(s, p) ==
    /\ p <= Len(s)
    /\ s[p] = 91
    /\ LET q == DigitRunEnd(s, p + 1)
       IN  q > p + 1 /\ q <= Len(s) /\ s[q] = 93

\* parseInt of a run of decimal digits.
RECURSIVE parseInt(_)
parseInt(d) ==
    IF d = <<>> THEN 0
    ELSE 10 * parseInt(SubSeq(d, 1, Len(d) - 1)) + (d[Len(d)] - 48)

\* The leftmost match is the one String.prototype.match returns.
RECURSIVE FirstMarkerFrom(_, _)
FirstMarkerFrom(s, p) ==
    IF p > Len(s) THEN 0
    ELSE IF MarkerAt(s, p) THEN p
    ELSE FirstMarkerFrom(s, p + 1)

extractCitationNumber(text) ==
    IF ~Truthy(text) THEN NullNumber
    ELSE LET p == FirstMarkerFrom(text.v, 1)
         IN  IF p = 0 THEN NullNumber
             ELSE parseInt(SubSeq(text.v, p + 1, DigitRunEnd(text.v, p + 1) - 1))

----------------------------------------------------------------------------
(* matchCitationsWithSources *)

\* A pairing that takes the citation number for the 0-based index.
PairOfNoOffset(citation, bibliography) ==
    LET citationNumber == extractCitationNumber(citation.text)
        sourceIndex == citationNumber
    IN  IF citationNumber # NullNumber
           /\ sourceIndex >= 0 /\ sourceIndex < Len(bibliography)
        THEN <<[citation |-> citation,
                citation_number |-> citationNumber,
                source |-> bibliography[sourceIndex + 1]]>>
        ELSE <<>>

\* The pair pushed for one citation, or nothing (forEach callback).
PairOf(citation, bibliography) ==
    LET citationNumber == extractCitationNumber(citation.text)
        sourceIndex == citationNumber - 1
    IN  IF citationNumber # NullNumber
           /\ sourceIndex >= 0 /\ sourceIndex < Len(bibliography)
        THEN <<[citation |-> citation,
                citation_number |-> citationNumber,
                source |-> bibliography[sourceIndex + 1]]>>
        ELSE <<>>

RECURSIVE matchCitationsWithSources(_, _)
matchCitationsWithSources(cits, bibliography) ==
    IF cits = <<>> THEN <<>>
    ELSE PairOf(Head(cits), bibliography)
         \o matchCitationsWithSources(Tail(cits), bibliography)

\* extractCitationNumber raises for a text that is truthy and has no method
\* match (a number); forEach lets the exception through.
PairingThrows(cits) ==
    \E j \in DOMAIN cits : Truthy(cits[j].text) /\ ~IsString(cits[j].text)

----------------------------------------------------------------------------
(* extractKeywordsFromContext *)

\* The stopWords set (i, v, na, po, s, iz, dlya, chto, kak, eto, to, zhe,
\* vse, ego, ih, ot, o, u, k, za, tak, no, a, ili, by, li, nu, vot, ne, ni,
\* da, net).
stopWords ==
    {<<1080>>, <<1074>>, <<1085, 1072>>, <<1087, 1086>>, <<1089>>,
     <<1080, 1079>>, <<1076, 1083, 1103>>, <<1095, 1090, 1086>>,
     <<1082, 1072, 1082>>, <<1101, 1090, 1086>>, <<1090, 1086>>,
     <<1078, 1077>>, <<1074, 1089, 1077>>, <<1077, 1075, 1086>>,
     <<1080, 1093>>, <<1086, 1090>>, <<1086>>, <<1091>>, <<1082>>,
     <<1079, 1072>>, <<1090, 1072, 1082>>, <<1085, 1086>>, <<1072>>,
     <<1080, 1083, 1080>>, <<1073, 1099>>, <<1083, 1080>>, <<1085, 1091>>,
     <<1074, 1086, 1090>>, <<1085, 1077>>, <<1085, 1080>>, <<1076, 1072>>,
     <<1085, 1077, 1090>>}

\* {4,} of the keyword pattern.
MinKeywordLen == 4

\* slice(0, 10)
MaxKeywords == 10

\* Index just behind the run of pattern letters that starts at index p.
RECURSIVE CyrRunEnd(_, _)
CyrRunEnd(s, p) ==
    IF p <= Len(s) /\ IsCyrLower(s[p]) THEN CyrRunEnd(s, p + 1) ELSE p

\* s.match(/[a-ya yo]{4,}/g) || []: the greedy, non-overlapping matches from
\* left to right; a run shorter than 4 is skipped as a whole.
RECURSIVE MatchWords(_, _)
MatchWords(s, p) ==
    IF p > Len(s) THEN <<>>
    ELSE IF ~IsCyrLower(s[p]) THEN MatchWords(s, p + 1)
    ELSE LET q == CyrRunEnd(s, p)
         IN  IF q - p >= MinKeywordLen
             THEN <<SubSeq(s, p, q - 1)>> \o MatchWords(s, q)
             ELSE MatchWords(s, q)

InSeq(e, s) == \E k \in 1..Len(s) : s[k] = e

\* [...new Set(words)]: first occurrences, in insertion order.
RECURSIVE Dedup(_, _)
Dedup(ws, seen) ==
    IF ws = <<>> THEN seen
    ELSE Dedup(Tail(ws), IF InSeq(Head(ws), seen) THEN seen
                         ELSE Append(seen, Head(ws)))

\* An extractor that cuts the list to 10 before it drops the duplicates.
extractKeywordsCutFirst(text) ==
    IF ~Truthy(text) \/ ~IsString(text) THEN <<>>
    ELSE LET words == MatchWords(toLowerCase(text.v), 1)
             keywords == SelectSeq(words, LAMBDA w : w \notin stopWords)
         IN  Dedup(SubSeq(keywords, 1, Min(MaxKeywords, Len(keywords))), <<>>)

extractKeywordsFromContext(text) ==
    IF ~Truthy(text) \/ ~IsString(text) THEN <<>>
    ELSE LET words == MatchWords(toLowerCase(text.v), 1)
             keywords == SelectSeq(words, LAMBDA w : w \notin stopWords)
             unique == Dedup(keywords, <<>>)
         IN  SubSeq(unique, 1, Min(MaxKeywords, Len(unique)))

----------------------------------------------------------------------------
(* findAllPositions, findKeywordMatches *)

\* "count < 100" of findAllPositions
MaxPositions == 100

\* word occurs in text at 0-based offset o.
OccursAt(text, word, o) ==
    /\ o + Len(word) <= Len(text)
    /\ \A j \in 1..Len(word) : text[o + j] = word[j]

\* text.indexOf(word, from): the first offset >= from, or -1.
indexOf(text, word, from) ==
    LET last == Len(text) - Len(word)
    IN  IF \E o \in from..last : OccursAt(text, word, o)
        THEN CHOOSE o \in from..last :
                 /\ OccursAt(text, word, o)
                 /\ \A q \in from..(o - 1) : ~OccursAt(text, word, q)
        ELSE -1

\* The while loop of findAllPositions; st holds index, count and positions.
RECURSIVE PositionsLoop(_, _, _)
PositionsLoop(text, word, st) ==
    IF st.index # -1 /\ st.count < MaxPositions
    THEN PositionsLoop(text, word,
                       [index |-> indexOf(text, word, st.index + 1),
                        count |-> st.count + 1,
                        positions |-> Append(st.positions, st.index)])
    ELSE st.positions

\* A scan that goes on behind each occurrence instead of one offset further.
RECURSIVE PositionsLoopBehind(_, _, _)
PositionsLoopBehind(text, word, st) ==
    IF st.index # -1 /\ st.count < MaxPositions
    THEN PositionsLoopBehind(text, word,
                             [index |-> indexOf(text, word,
                                                st.index + Len(word)),
                              count |-> st.count + 1,
                              positions |-> Append(st.positions, st.index)])
    ELSE st.positions

findAllPositionsBehind(text, word) ==
    PositionsLoopBehind(text, word,
                        [index |-> indexOf(text, word, 0), count |-> 0,
                         positions |-> <<>>])

findAllPositions(text, word) ==
    PositionsLoop(text, word,
                  [index |-> indexOf(text, word, 0), count |-> 0,
                   positions |-> <<>>])

\* sourceLower.includes(keyword)
includes(text, word) == indexOf(text, word, 0) # -1

RECURSIVE MatchesLoop(_, _)
MatchesLoop(keywords, sourceLower) ==
    IF keywords = <<>> THEN <<>>
    ELSE (IF includes(sourceLower, Head(keywords))
          THEN <<[keyword |-> Head(keywords),
                  positions |-> findAllPositions(sourceLower, Head(keywords))]>>
          ELSE <<>>)
         \o MatchesLoop(Tail(keywords), sourceLower)

findKeywordMatches(keywords, sourceContent) ==
    MatchesLoop(keywords, toLowerCase(sourceContent))

----------------------------------------------------------------------------
(* calculateConfidence *)

\* A scorer whose thresholds are inclusive.
calculateConfidenceInclusive(foundCount, totalCount) ==
    IF totalCount = 0 THEN 0
    ELSE IF 10 * foundCount >= 7 * totalCount THEN 90
    ELSE IF 10 * foundCount >= 5 * totalCount THEN 75
    ELSE IF 10 * foundCount >= 3 * totalCount THEN 60
    ELSE IF 10 * foundCount >= 2 * totalCount THEN 40
    ELSE 20

\* A scorer that returns 0 as soon as nothing was found.
calculateConfidenceNothingFound(foundCount, totalCount) ==
    IF totalCount = 0 \/ foundCount = 0 THEN 0
    ELSE IF 10 * foundCount > 7 * totalCount THEN 90
    ELSE IF 10 * foundCount > 5 * totalCount THEN 75
    ELSE IF 10 * foundCount > 3 * totalCount THEN 60
    ELSE IF 10 * foundCount > 2 * totalCount THEN 40
    ELSE 20

\* foundCount / totalCount > 0.7 and so on, in exact arithmetic: for the
\* totals that occur (at most 10) the double quotient is on the same side of
\* the double literal as the rational is of the decimal.
calculateConfidence(foundCount, totalCount) ==
    IF totalCount = 0 THEN 0
    ELSE IF 10 * foundCount > 7 * totalCount THEN 90
    ELSE IF 10 * foundCount > 5 * totalCount THEN 75
    ELSE IF 10 * foundCount > 3 * totalCount THEN 60
    ELSE IF 10 * foundCount > 2 * totalCount THEN 40
    ELSE 20

----------------------------------------------------------------------------
(* findBestSnippet *)

\* The ellipsis marker '...'
Ellipsis == <<46, 46, 46>>

\* substring(0, 300) of the fallback
FallbackLen == 300

\* match.positions.slice(0, 10)
PositionsPerMatch == 10

\* Math.min(positions.length, 100) of the cluster loop
MaxClusterScan == 100

\* positions[i] - positions[i-1] < 500
ClusterGap == 500

\* bestStart - 150, bestEnd + 150
SnippetContext == 150

\* keywordMatches.flatMap(match => match.positions.slice(0, 10))
RECURSIVE FlatPositions(_)
FlatPositions(keywordMatches) ==
    IF keywordMatches = <<>> THEN <<>>
    ELSE LET ps == Head(keywordMatches).positions
         IN  SubSeq(ps, 1, Min(PositionsPerMatch, Len(ps)))
             \o FlatPositions(Tail(keywordMatches))

\* positions.sort((a, b) => a - b): the k-th entry is the value with fewer
\* than k smaller entries and at least k entries that are not larger.
SortAsc(s) ==
    [k \in DOMAIN s |->
        CHOOSE v \in {s[j] : j \in DOMAIN s} :
            /\ Cardinality({j \in DOMAIN s : s[j] < v}) < k
            /\ Cardinality({j \in DOMAIN s : s[j] <= v}) >= k]

\* A loop body in which a later cluster of the same size replaces the best
\* one.
ClusterStepLastWins(ps, st) ==
    IF ps[st.i + 1] - ps[st.i] < ClusterGap
    THEN LET cur == st.currentClusterSize + 1
         IN  IF cur >= st.maxClusterSize
             THEN [i |-> st.i + 1,
                   bestStart |-> ps[st.i - cur + 2], bestEnd |-> ps[st.i + 1],
                   maxClusterSize |-> cur, currentClusterSize |-> cur]
             ELSE [st EXCEPT !.i = @ + 1, !.currentClusterSize = cur]
    ELSE [st EXCEPT !.i = @ + 1, !.currentClusterSize = 1]

\* The body of the for loop over the sorted positions; st holds the 0-based
\* i (positions[i] is ps[i + 1]), bestStart, bestEnd, maxClusterSize and
\* currentClusterSize.
ClusterStep(ps, st) ==
    IF ps[st.i + 1] - ps[st.i] < ClusterGap
    THEN LET cur == st.currentClusterSize + 1
         IN  IF cur > st.maxClusterSize
             THEN [i |-> st.i + 1,
                   bestStart |-> ps[st.i - cur + 2], bestEnd |-> ps[st.i + 1],
                   maxClusterSize |-> cur, currentClusterSize |-> cur]
             ELSE [st EXCEPT !.i = @ + 1, !.currentClusterSize = cur]
    ELSE [st EXCEPT !.i = @ + 1, !.currentClusterSize = 1]

\* for (let i = 1; i < Math.min(positions.length, 100); i++)
RECURSIVE ClusterLoop(_, _)
ClusterLoop(ps, st) ==
    IF st.i >= Min(Len(ps), MaxClusterScan) THEN st
    ELSE ClusterLoop(ps, ClusterStep(ps, st))

\* The positions the cluster loop works on.
SortedPositions(keywordMatches) == SortAsc(FlatPositions(keywordMatches))

\* bestStart and bestEnd behind the loop, for a non-empty sorted list.
BestCluster(positions) ==
    ClusterLoop(positions,
                [i |-> 1, bestStart |-> positions[1], bestEnd |-> positions[1],
                 maxClusterSize |-> 1, currentClusterSize |-> 1])

\* A fallback that leaves a content shorter than 300 characters as it is.
FallbackBareWhenShort(sourceContent) ==
    IF Len(sourceContent) < FallbackLen THEN sourceContent
    ELSE Substring(sourceContent, 0, FallbackLen) \o Ellipsis

\* sourceContent.substring(0, 300) + '...'
Fallback(sourceContent) == Substring(sourceContent, 0, FallbackLen) \o Ellipsis

\* A window that is marked on the sides on which it was clamped.
SnippetMarksClamped(sourceContent, st) ==
    LET snippetStart == Max(0, st.bestStart - SnippetContext)
        snippetEnd == Min(Len(sourceContent), st.bestEnd + SnippetContext)
    IN  (IF st.bestStart - SnippetContext < 0 THEN Ellipsis ELSE <<>>)
        \o Substring(sourceContent, snippetStart, snippetEnd)
        \o (IF st.bestEnd + SnippetContext > Len(sourceContent) THEN Ellipsis
            ELSE <<>>)

\* The window cut out around the cluster st, with its ellipsis markers.
Snippet(sourceContent, st) ==
    LET snippetStart == Max(0, st.bestStart - SnippetContext)
        snippetEnd == Min(Len(sourceContent), st.bestEnd + SnippetContext)
    IN  (IF snippetStart > 0 THEN Ellipsis ELSE <<>>)
        \o Substring(sourceContent, snippetStart, snippetEnd)
        \o (IF snippetEnd < Len(sourceContent) THEN Ellipsis ELSE <<>>)

findBestSnippet(sourceContent, keywordMatches) ==
    IF keywordMatches = <<>> \/ sourceContent = <<>>
    THEN Fallback(sourceContent)
    ELSE LET positions == SortedPositions(keywordMatches)
         IN  IF positions = <<>> THEN Fallback(sourceContent)
             ELSE Snippet(sourceContent, BestCluster(positions))

\* A locator that also raises on the empty string.
findBestSnippetThrowsOnEmpty(sourceContent, keywordMatches) ==
    ~IsString(sourceContent) \/ sourceContent.v = <<>>

\* findBestSnippet called with a value that is no string: every path calls
\* sourceContent.substring, which raises a TypeError.
findBestSnippetThrows(sourceContent, keywordMatches) == ~IsString(sourceContent)

----------------------------------------------------------------------------
(* The title scrub of checkCitationInSource *)

\* w.length > 3 of the titleWords filter
MinTitleWordLen == 3

\* s.split(' '): the pieces between single spaces, empty pieces included.
RECURSIVE SplitFrom(_, _, _)
SplitFrom(s, p, piece) ==
    IF p > Len(s) THEN <<piece>>
    ELSE IF s[p] = 32 THEN <<piece>> \o SplitFrom(s, p + 1, <<>>)
    ELSE SplitFrom(s, p + 1, Append(piece, s[p]))

split(s) == SplitFrom(s, 1, <<>>)

\* The pattern made of the escaped word, flags 'gi', matches at index p: the
\* escape makes every character literal, 'i' compares case-folded code units.
WordAt(content, word, p) ==
    /\ p + Len(word) - 1 <= Len(content)
    /\ \A j \in 1..Len(word) :
           LowerChar(content[p + j - 1]) = LowerChar(word[j])

\* content.replace(regex, ''): one pass from left to right over the original
\* content, from index p; the text before the next match is kept, the match
\* is dropped and the scan goes on behind it.
RECURSIVE RemoveAll(_, _, _)
RemoveAll(content, word, p) ==
    IF \E q \in p..Len(content) : WordAt(content, word, q)
    THEN LET q == CHOOSE q \in p..Len(content) :
                      /\ WordAt(content, word, q)
                      /\ \A r \in p..(q - 1) : ~WordAt(content, word, r)
         IN  SubSeq(content, p, q - 1) \o RemoveAll(content, word, q + Len(word))
    ELSE SubSeq(content, p, Len(content))

\* titleWords.forEach(word => searchableContent = searchableContent.replace(..))
RECURSIVE ScrubWords(_, _)
ScrubWords(content, titleWords) ==
    IF titleWords = <<>> THEN content
    ELSE ScrubWords(RemoveAll(content, Head(titleWords), 1), Tail(titleWords))

ScrubTitle(content, title) ==
    ScrubWords(content,
               SelectSeq(split(title), LAMBDA w : Len(w) > MinTitleWordLen))

----------------------------------------------------------------------------
(* checkCitationInSource *)

\* A function that throws yields Thrown.
Thrown == [thrown |-> TRUE]
IsThrown(r) == "thrown" \in DOMAIN r

\* The not-found outcome; the reason is a tag for the message of the code:
\*   "NoAccess"            'Net dostupa k tekstu istochnika'
\*   "InvalidCitationText" 'Nekorrektnyj tekst citaty'
\*   "NotInMainText"       'Klyuchevye slova citaty ne najdeny v osnovnom
\*                          tekste istochnika'
\*   "NotInSource"         'Klyuchevye slova citaty ne najdeny v istochnike'
\* A not-found outcome without its confidence.
NotFoundBare(reason) == [found |-> FALSE, reason |-> reason]

NotFound(reason) == [found |-> FALSE, reason |-> reason, confidence |-> 0]

\* The five words filtered out of importantKeywords (biznes, planirovanie,
\* uchebnik, vuzov, lopareva).
unimportant ==
    {<<1073, 1080, 1079, 1085, 1077, 1089>>,
     <<1087, 1083, 1072, 1085, 1080, 1088, 1086, 1074, 1072, 1085, 1080, 1077>>,
     <<1091, 1095, 1077, 1073, 1085, 1080, 1082>>,
     <<1074, 1091, 1079, 1086, 1074>>,
     <<1083, 1086, 1087, 1072, 1088, 1077, 1074, 1072>>}

\* A check that looks for the keywords in the content as it came, title
\* words included.
checkCitationInSourceUnscrubbed(citationText, sourceContent, sourceTitle) ==
    IF ~Truthy(sourceContent) THEN NotFound([text |-> "NoAccess"])
    ELSE IF ~Truthy(citationText) \/ ~IsString(citationText)
    THEN NotFound([text |-> "InvalidCitationText"])
    ELSE IF ~IsString(sourceContent) THEN Thrown
    ELSE
    LET title == IF Truthy(sourceTitle) /\ IsString(sourceTitle)
                 THEN sourceTitle.v ELSE <<>>
        keywords == extractKeywordsFromContext(citationText)
        searchableContent == ScrubTitle(sourceContent.v, title)
        keywordMatches == findKeywordMatches(keywords, sourceContent.v)
        importantKeywords ==
            SelectSeq(keywords, LAMBDA k : k \notin unimportant)
    IN  IF keywordMatches = <<>> /\ importantKeywords # <<>>
           /\ findKeywordMatches(importantKeywords, sourceContent.v) = <<>>
        THEN NotFound([text |-> "NotInMainText"])
        ELSE IF keywordMatches = <<>> /\ importantKeywords = <<>>
        THEN NotFound([text |-> "NotInSource"])
        ELSE [found |-> TRUE,
              confidence |->
                  Min(calculateConfidence(Len(keywordMatches), Len(keywords)),
                      100),
              match_type |-> "semantic",
              keyword_matches |-> keywordMatches,
              best_snippet |-> findBestSnippet(searchableContent, keywordMatches),
              total_keywords_found |-> Len(keywordMatches),
              total_keywords_searched |-> Len(keywords)]

\* citationText, sourceContent and sourceTitle are JS values.  A source
\* content that is truthy and not a string passes the guards, survives the
\* scrub (its TypeError is caught per word) and throws in findKeywordMatches
\* at sourceContent.toLowerCase().
checkCitationInSource(citationText, sourceContent, sourceTitle) ==
    IF ~Truthy(sourceContent) THEN NotFound([text |-> "NoAccess"])
    ELSE IF ~Truthy(citationText) \/ ~IsString(citationText)
    THEN NotFound([text |-> "InvalidCitationText"])
    ELSE IF ~IsString(sourceContent) THEN Thrown
    ELSE
    LET title == IF Truthy(sourceTitle) /\ IsString(sourceTitle)
                 THEN sourceTitle.v ELSE <<>>
        keywords == extractKeywordsFromContext(citationText)
        searchableContent == ScrubTitle(sourceContent.v, title)
        keywordMatches == findKeywordMatches(keywords, searchableContent)
        importantKeywords ==
            SelectSeq(keywords, LAMBDA k : k \notin unimportant)
    IN  IF keywordMatches = <<>> /\ importantKeywords # <<>>
           /\ findKeywordMatches(importantKeywords, searchableContent) = <<>>
        THEN NotFound([text |-> "NotInMainText"])
        ELSE IF keywordMatches = <<>> /\ importantKeywords = <<>>
        THEN NotFound([text |-> "NotInSource"])
        ELSE [found |-> TRUE,
              confidence |->
                  Min(calculateConfidence(Len(keywordMatches), Len(keywords)),
                      100),
              match_type |-> "semantic",
              keyword_matches |-> keywordMatches,
              best_snippet |-> findBestSnippet(searchableContent, keywordMatches),
              total_keywords_found |-> Len(keywordMatches),
              total_keywords_searched |-> Len(keywords)]

----------------------------------------------------------------------------
(* verifyCitationSourcePair *)

JSNull == [t |-> "null"]

\* "return null" of the catch block of verifyCitationSourcePair.
NullResult == [null |-> TRUE]
IsNullResult(r) == "null" \in DOMAIN r

\* The decimal digits of n >= 0, as in the template `[${citation_number}]`.
RECURSIVE ToDecimal(_)
ToDecimal(n) ==
    IF n < 10 THEN <<48 + n>> ELSE Append(ToDecimal(n \div 10), 48 + (n % 10))

\* /^\[\d+\]$/.test(s)
IsBareMarker(s) ==
    /\ Len(s) >= 3
    /\ s[1] = 91
    /\ s[Len(s)] = 93
    /\ \A k \in 2..(Len(s) - 1) : IsDigit(s[k])

\* The test of one candidate field; a truthy field that is no string has no
\* trim method, and the call throws a TypeError.
FieldThrows(field) == Truthy(field) /\ ~IsString(field)
\* A test that compares the field as it is with the marker pattern.
FieldQualifiesUntrimmed(field) ==
    /\ Truthy(field)
    /\ trim(field.v) # <<>>
    /\ ~IsBareMarker(field.v)

FieldQualifies(field) ==
    /\ Truthy(field)
    /\ trim(field.v) # <<>>
    /\ ~IsBareMarker(trim(field.v))

\* The for loop over possibleFields, then the `[n]` fallback.
RECURSIVE FirstField(_, _)
FirstField(fields, citation_number) ==
    IF fields = <<>> THEN Str(<<91>> \o ToDecimal(citation_number) \o <<93>>)
    ELSE IF FieldThrows(Head(fields)) THEN Thrown
    ELSE IF FieldQualifies(Head(fields)) THEN Head(fields)
    ELSE FirstField(Tail(fields), citation_number)

getCitationText(citation, citation_number) ==
    FirstField(<<citation.context, citation.full_paragraph, citation.text>>,
               citation_number)

\* a || b
OrElse(a, b) == IF Truthy(a) THEN a ELSE b

\* source.text?.substring(0, 100)
TextPrefix(source) ==
    IF IsString(source.text) THEN Str(Substring(source.text.v, 0, 100))
    ELSE Undefined

\* 'Neizvestnyj istochnik'
UnknownSource ==
    Str(<<1053, 1077, 1080, 1079, 1074, 1077, 1089, 1090, 1085, 1099, 1081, 32,
          1080, 1089, 1090, 1086, 1095, 1085, 1080, 1082>>)

\* 'Istochnik iz biblioteki'
LibrarySourceTitle ==
    Str(<<1048, 1089, 1090, 1086, 1095, 1085, 1080, 1082, 32, 1080, 1079, 32,
          1073, 1080, 1073, 1083, 1080, 1086, 1090, 1077, 1082, 1080>>)

\* 'Net teksta'
NoText == Str(<<1053, 1077, 1090, 32, 1090, 1077, 1082, 1089, 1090, 1072>>)

\* source.library_match?.source_id is truthy: the content store is asked.
HasLibrarySource(source) == Truthy(source.library_source_id)

\* A result object that carries the content as it was searched, without
\* the words of the title.
AssembleResultScrubbed(citation_number, full_citation_text, sourceContent, sourceTitle, sourceId) ==
    LET verificationResult ==
            checkCitationInSource(full_citation_text, sourceContent, sourceTitle)
    IN  IF IsThrown(verificationResult) THEN NullResult
        ELSE [citation_number |-> citation_number,
              citation_text |-> full_citation_text,
              source_title |-> sourceTitle,
              source_content |->
                  IF Len(sourceContent.v) > 0
                  THEN Str(ScrubTitle(sourceContent.v, sourceTitle.v))
                  ELSE sourceContent,
              source_id |-> sourceId,
              verification |-> verificationResult,
              has_source_content |-> Len(sourceContent.v) > 0]

\* The tail of verifyCitationSourcePair: checkCitationInSource and the
\* result object; an exception ends in the catch block, which returns null.
AssembleResult(citation_number, full_citation_text, sourceContent, sourceTitle, sourceId) ==
    LET verificationResult ==
            checkCitationInSource(full_citation_text, sourceContent, sourceTitle)
    IN  IF IsThrown(verificationResult) THEN NullResult
        ELSE [citation_number |-> citation_number,
              citation_text |-> full_citation_text,
              source_title |-> sourceTitle,
              source_content |-> sourceContent,
              source_id |-> sourceId,
              verification |-> verificationResult,
              has_source_content |-> Len(sourceContent.v) > 0]

\* What the content store answered, as seen by the code behind the await:
\*   [kind |-> "data", success, full_content, title]   a resolved request
\*   [kind |-> "error"]                                 a rejected request
\* The rejection is caught (apiError) and leaves the content empty.
SourceContentOf(response) ==
    IF response.kind = "data" /\ response.success
    THEN OrElse(response.full_content, Str(<<>>))
    ELSE Str(<<>>)

SourceTitleOf(response, source) ==
    IF response.kind = "data" /\ response.success
    THEN OrElse(response.title, OrElse(TextPrefix(source), LibrarySourceTitle))
    ELSE Str(<<>>)

\* A verification whose request rejection is not caught at the request: it
\* ends in the outer catch block.
ResultAfterFetchUncaught(pair, response) ==
    IF response.kind = "error" THEN NullResult
    ELSE AssembleResult(pair.citation_number,
                        getCitationText(pair.citation, pair.citation_number),
                        SourceContentOf(response),
                        SourceTitleOf(response, pair.source),
                        pair.source.library_source_id)

\* verifyCitationSourcePair behind the await of axios.get.
ResultAfterFetch(pair, response) ==
    AssembleResult(pair.citation_number,
                   getCitationText(pair.citation, pair.citation_number),
                   SourceContentOf(response),
                   SourceTitleOf(response, pair.source),
                   pair.source.library_source_id)

\* A resolution that prefers the text of the entry to its online title.
ResultWithoutFetchTextFirst(pair) ==
    AssembleResult(pair.citation_number,
                   getCitationText(pair.citation, pair.citation_number),
                   Str(<<>>),
                   IF Truthy(TextPrefix(pair.source))
                   THEN TextPrefix(pair.source)
                   ELSE OrElse(pair.source.online_title, UnknownSource),
                   JSNull)

\* verifyCitationSourcePair for a source without a library source id.
ResultWithoutFetch(pair) ==
    AssembleResult(pair.citation_number,
                   getCitationText(pair.citation, pair.citation_number),
                   Str(<<>>),
                   IF Truthy(pair.source.online_title)
                   THEN pair.source.online_title
                   ELSE OrElse(TextPrefix(pair.source), UnknownSource),
                   JSNull)

\* The object pushed by the catch block of the loop of verifyAllCitations;
\* the message is the one of the Error the timer rejects with,
\* `Tajmaut proverki pary ${i + 1}/${matchedPairs.length}`, behind the prefix
\* 'Oshibka proverki: '.
ErrorEntry(pair, message) ==
    [citation_number |-> pair.citation_number,
     citation_text |-> OrElse(pair.citation.text, NoText),
     source_title |-> OrElse(TextPrefix(pair.source), UnknownSource),
     verification |-> NotFound([text |-> "CheckError", message |-> message]),
     has_source_content |-> FALSE]

TimeoutMessage(k, n) == [text |-> "PairTimeout", position |-> k, of |-> n]

----------------------------------------------------------------------------
(* Inputs: the analysis of a document and the answers of the content store *)

\* Bounds of the model: citations and bibliography entries of one analysis.
MaxCitations == 2
MaxBibliography == 1

Citation(text, context, full_paragraph) ==
    [text |-> text, context |-> context, full_paragraph |-> full_paragraph]

\* 'sm. [1][2]' with the context 'rost ekonomiki': the number is 1.
CitContext ==
    Citation(Str(<<1089, 1084, 46, 32, 91, 49, 93, 91, 50, 93>>),
             Str(<<1088, 1086, 1089, 1090, 32, 1101, 1082, 1086, 1085, 1086,
                   1084, 1080, 1082, 1080>>),
             Undefined)
\* '[2]' with a blank context and the paragraph '[7]': the evidence text is
\* the marker built from the number.
CitSecond ==
    Citation(Str(<<91, 50, 93>>), Str(<<32, 32>>), Str(<<91, 55, 93>>))
\* '[1]' whose context is not a string (a number in the analysis JSON).
CitBadContext == Citation(Str(<<91, 49, 93>>), Num(7), Undefined)
\* '[0]', '[12]', '[x]1' and a citation without text: no pair.
CitZero == Citation(Str(<<91, 48, 93>>), Undefined, Undefined)
CitHigh == Citation(Str(<<91, 49, 50, 93>>), Undefined, Undefined)
CitNoMarker == Citation(Str(<<91, 120, 93, 49>>), Undefined, Undefined)
CitNoText == Citation(Undefined, Undefined, Undefined)

CitationPool ==
    {CitContext, CitSecond, CitBadContext, CitZero, CitHigh, CitNoMarker,
     CitNoText}

Entry(text, library_source_id, online_title) ==
    [text |-> text, library_source_id |-> library_source_id,
     online_title |-> online_title]

\* 'Rost cen' matched to the library source "s1"
BibLibrary ==
    Entry(Str(<<1056, 1086, 1089, 1090, 32, 1094, 1077, 1085>>),
          Str(<<115, 49>>), Undefined)
\* 'Ceny' with online metadata titled 'Ekonomika'
BibOnline ==
    Entry(Str(<<1062, 1077, 1085, 1099>>), Undefined,
          Str(<<1069, 1082, 1086, 1085, 1086, 1084, 1080, 1082, 1072>>))
\* an entry of 101 letters, a hundred times 'a' and a 'ya', without library
\* match or online metadata
BibPlain ==
    Entry(Str([k \in 1..101 |-> IF k <= 100 THEN 1072 ELSE 1103]),
          Undefined, Undefined)

BibliographyPool == {BibLibrary, BibOnline, BibPlain}

SeqsUpTo(S, n) == UNION {[1..m -> S] : m \in 0..n}

\* The answers of the content store to GET .../full-content.
DataResponse(success, full_content, title) ==
    [kind |-> "data", success |-> success, full_content |-> full_content,
     title |-> title]

ErrorResponse == [kind |-> "error"]

Responses ==
    { \* 'Rost i ekonomika', no title: the title falls back to the entry text
      DataResponse(TRUE,
          Str(<<1056, 1086, 1089, 1090, 32, 1080, 32, 1101, 1082, 1086, 1085,
                1086, 1084, 1080, 1082, 1072>>), Undefined),
      \* 'rost cen i rost ekonomiki', titled 'Rost'
      DataResponse(TRUE,
          Str(<<1088, 1086, 1089, 1090, 32, 1094, 1077, 1085, 32, 1080, 32,
                1088, 1086, 1089, 1090, 32, 1101, 1082, 1086, 1085, 1086, 1084,
                1080, 1082, 1080>>),
          Str(<<1056, 1086, 1089, 1090>>)),
      \* success without content
      DataResponse(TRUE, Undefined, Undefined),
      \* a full_content that is not a string
      DataResponse(TRUE, Num(5), Undefined),
      \* { success: false }
      DataResponse(FALSE, Undefined, Undefined),
      \* network error or error status: the request rejects
      ErrorResponse }

----------------------------------------------------------------------------
(* verifyAllCitations: one run of the component *)

VARIABLES
    citations,            \* analysis.citations
    bibliography,         \* analysis.bibliography_entries
    loading,              \* React state
    progress,             \* React state
    verificationResults,  \* React state: the list last passed to the setter
    pc,                   \* "idle", "loop" (between two pairs), "await"
                          \* (suspended in await Promise.race), "done"
    matchedPairs,         \* const matchedPairs
    i,                    \* the loop variable, 0-based
    results,              \* const results = []
    fetch,                \* per pair: the axios.get request: "none",
                          \* "inflight", "answered" (success: true),
                          \* "failed" (rejected, or answered without
                          \* success), "timedout" (never answered)
    timer,                \* per pair: the setTimeout, "none", "armed", "fired"
    race,                 \* per pair: the Promise.race, "none", "pending",
                          \* "settled"
    alerts,               \* the alert() calls, in order
    resultPair,           \* history: the pair ordinal of each entry of results
    started,              \* history: calls of verifyCitationSourcePair per pair
    fetches,              \* history: axios.get calls per pair
    threw,                \* history: the pairs whose verification ended in
                          \* the catch block of verifyCitationSourcePair
    emitLog,              \* history: resultPair at each partial-list emission
    progressLog,          \* history: the setProgress calls, each with the
                          \* value last passed to setLoading
    call                  \* one call of a function of the engine on its
                          \* own: its name, arguments and, once it has
                          \* returned, its result; NoCall within a run

vars == <<citations, bibliography, loading, progress, verificationResults, pc,
          matchedPairs, i, results, fetch, timer, race, alerts, resultPair,
          started, fetches, threw, emitLog, progressLog, call>>

inputs == <<citations, bibliography>>

NoCall == [op |-> "none"]

\* setProgress(value) while the value last passed to setLoading is `loads`.
Report(value, loads) == [value |-> value, loading |-> loads]

Init ==
    /\ citations \in SeqsUpTo(CitationPool, MaxCitations)
    /\ bibliography \in SeqsUpTo(BibliographyPool, MaxBibliography)
    /\ loading = FALSE
    /\ progress = 0
    /\ verificationResults = <<>>
    /\ pc = "idle"
    /\ matchedPairs = <<>>
    /\ i = 0
    /\ results = <<>>
    /\ fetch = <<>>
    /\ timer = <<>>
    /\ race = <<>>
    /\ alerts = <<>>
    /\ resultPair = <<>>
    /\ started = <<>>
    /\ fetches = <<>>
    /\ threw = {}
    /\ emitLog = <<>>
    /\ progressLog = <<>>
    /\ call = NoCall

\* A percentage that counts the pairs left instead of the pairs done.
ProgressLeft(k, n) == (200 * (n - k) + n) \div (2 * n)

\* Math.round(((i + 1) / matchedPairs.length) * 100), round half up.
ProgressAt(k, n) == (200 * k + n) \div (2 * n)

\* showVerificationSummary
showVerificationSummary(rs) ==
    LET verified == Len(SelectSeq(rs, LAMBDA r : r.verification.found))
        total == Len(rs)
    IN  [kind |-> "Summary", total |-> total, verified |-> verified,
         notFound |-> total - verified]

\* The early return of the run: alert('Net par dlya proverki ...').
NoPairsNever(pairs) == FALSE
NoPairs(pairs) == Len(pairs) = 0

\* verifyAllCitations up to its first suspension: the three setters, the
\* pairing and, without pairs, the alert, the return and the finally block.
Start ==
    /\ pc = "idle"
    /\ ~PairingThrows(citations)
    /\ LET pairs == matchCitationsWithSources(citations, bibliography)
           n == Len(pairs)
       IN  /\ matchedPairs' = pairs
           /\ verificationResults' = <<>>
           /\ progress' = 0
           /\ fetch' = [k \in 1..n |-> "none"]
           /\ timer' = [k \in 1..n |-> "none"]
           /\ race' = [k \in 1..n |-> "none"]
           /\ started' = [k \in 1..n |-> 0]
           /\ fetches' = [k \in 1..n |-> 0]
           /\ IF NoPairs(pairs)
              THEN /\ alerts' = Append(alerts, [kind |-> "NoPairs"])
                   /\ loading' = FALSE
                   /\ pc' = "done"
                   /\ progressLog' = progressLog
                           \o <<Report(0, TRUE), Report(0, FALSE)>>
              ELSE /\ alerts' = alerts
                   /\ loading' = TRUE
                   /\ pc' = "loop"
                   /\ progressLog' = Append(progressLog, Report(0, TRUE))
    /\ i' = 0
    /\ results' = <<>>
    /\ UNCHANGED <<inputs, resultPair, threw, emitLog, call>>

\* Promise.race settles once: a later settlement of its other promise finds
\* it settled and is dropped.
RacePendingAny(k) == race[k] # "none"
RacePending(k) == race[k] = "pending"

\* `if (result)` behind the await: a null result is not pushed.
PushesResult(value) == ~IsNullResult(value)

\* i++ of the for loop: the next iteration takes the next pair, whatever the
\* outcome of this one was.
RetryIndex(outcome) == IF outcome.kind = "reject" THEN i ELSE i + 1
NextIndex(outcome) == i + 1

\* A loop that puts the newest entry in front of the list.
ContinueNewestFirst(k, outcome) ==
    /\ LET entry == IF outcome.kind = "value" THEN outcome.value
                    ELSE ErrorEntry(matchedPairs[k], outcome.message)
           pushes == outcome.kind = "reject" \/ PushesResult(outcome.value)
       IN  IF pushes
           THEN /\ results' = <<entry>> \o results
                /\ verificationResults' = results'
                /\ resultPair' = <<k>> \o resultPair
                /\ emitLog' = Append(emitLog, resultPair')
           ELSE UNCHANGED <<results, verificationResults, resultPair, emitLog>>
    /\ race' = [race EXCEPT ![k] = "settled"]
    /\ i' = NextIndex(outcome)
    /\ pc' = "loop"

\* The loop of verifyAllCitations behind `await Promise.race` for pair k,
\* up to the start of the next iteration.  outcome is the settlement of the
\* race: [kind |-> "value", value |-> r] or [kind |-> "reject", message |-> m].
Continue(k, outcome) ==
    /\ LET entry == IF outcome.kind = "value" THEN outcome.value
                    ELSE ErrorEntry(matchedPairs[k], outcome.message)
           pushes == outcome.kind = "reject" \/ PushesResult(outcome.value)
       IN  IF pushes
           THEN /\ results' = Append(results, entry)
                /\ verificationResults' = results'
                /\ resultPair' = Append(resultPair, k)
                /\ emitLog' = Append(emitLog, resultPair')
           ELSE UNCHANGED <<results, verificationResults, resultPair, emitLog>>
    /\ race' = [race EXCEPT ![k] = "settled"]
    /\ i' = NextIndex(outcome)
    /\ pc' = "loop"

\* `await Promise.race(...)` with a verification that waits for the content
\* store suspends the loop in its iteration; without the await the loop would
\* go on to the next pair.
LoopNoAwait == [pc |-> "loop", i |-> i + 1]
LoopAtAwait == [pc |-> "await", i |-> i]

\* One iteration of the loop up to its suspension: setProgress, the timer,
\* the call of verifyCitationSourcePair up to its await of axios.get; a
\* verification that does not ask the content store settles the race within
\* the same task, and the loop goes on.
BeginPair ==
    /\ pc = "loop"
    /\ i < Len(matchedPairs)
    /\ LET k == i + 1
           pair == matchedPairs[k]
           text == getCitationText(pair.citation, pair.citation_number)
           asks == ~IsThrown(text) /\ HasLibrarySource(pair.source)
       IN  /\ progress' = ProgressAt(k, Len(matchedPairs))
           /\ progressLog' = Append(progressLog, Report(progress', loading))
           /\ timer' = [timer EXCEPT ![k] = "armed"]
           /\ started' = [started EXCEPT ![k] = @ + 1]
           /\ IF asks
              THEN /\ fetch' = [fetch EXCEPT ![k] = "inflight"]
                   /\ fetches' = [fetches EXCEPT ![k] = @ + 1]
                   /\ race' = [race EXCEPT ![k] = "pending"]
                   /\ pc' = LoopAtAwait.pc
                   /\ i' = LoopAtAwait.i
                   /\ UNCHANGED <<results, verificationResults, resultPair,
                                  emitLog>>
              ELSE /\ Continue(k, [kind |-> "value",
                                   value |-> IF IsThrown(text) THEN NullResult
                                             ELSE ResultWithoutFetch(pair)])
                   /\ UNCHANGED <<fetch, fetches>>
           /\ threw' = IF IsThrown(text) THEN threw \cup {k} ELSE threw
    /\ UNCHANGED <<inputs, loading, matchedPairs, alerts, call>>

\* The request of pair k settles with `response`: verifyCitationSourcePair
\* runs to its end and settles its promise; the race takes it if still
\* pending.
Settled(k, outcome) ==
    IF RacePending(k) THEN Continue(k, outcome)
    ELSE UNCHANGED <<results, verificationResults, resultPair, emitLog, race,
                     i, pc>>

FetchSettles(k, response) ==
    /\ fetch[k] = "inflight"
    /\ fetch' = [fetch EXCEPT ![k] =
                    IF response.kind = "data" /\ response.success
                    THEN "answered" ELSE "failed"]
    /\ LET value == ResultAfterFetch(matchedPairs[k], response)
       IN  /\ Settled(k, [kind |-> "value", value |-> value])
           /\ threw' = IF IsNullResult(value) THEN threw \cup {k} ELSE threw
    /\ UNCHANGED <<inputs, loading, progress, matchedPairs, timer, alerts,
                   started, fetches, progressLog, call>>

\* The content store does not answer: the request's own timeout
\* ({ timeout: 10000 }) rejects it.
RequestTimeout(k) ==
    /\ fetch[k] = "inflight"
    /\ fetch' = [fetch EXCEPT ![k] = "timedout"]
    /\ Settled(k, [kind |-> "value",
                   value |-> ResultAfterFetch(matchedPairs[k], ErrorResponse)])
    /\ UNCHANGED <<inputs, loading, progress, matchedPairs, timer, alerts,
                   started, fetches, threw, progressLog, call>>

\* A timer that fires without rejecting anything.
TimerFiresSilent(k) ==
    /\ timer[k] = "armed"
    /\ timer' = [timer EXCEPT ![k] = "fired"]
    /\ UNCHANGED <<results, verificationResults, resultPair, emitLog, race,
                   i, pc>>
    /\ UNCHANGED <<inputs, loading, progress, matchedPairs, fetch, alerts,
                   started, fetches, threw, progressLog, call>>

\* The timer of pair k (setTimeout(..., 10000)) fires and rejects
\* timeoutPromise.
TimerFires(k) ==
    /\ timer[k] = "armed"
    /\ timer' = [timer EXCEPT ![k] = "fired"]
    /\ Settled(k, [kind |-> "reject",
                   message |-> TimeoutMessage(k, Len(matchedPairs))])
    /\ UNCHANGED <<inputs, loading, progress, matchedPairs, fetch, alerts,
                   started, fetches, threw, progressLog, call>>

\* Behind the loop: setProgress(100), the summary, the finally block.
Finish ==
    /\ pc = "loop"
    /\ i >= Len(matchedPairs)
    /\ alerts' = Append(alerts, showVerificationSummary(results))
    /\ loading' = FALSE
    /\ progress' = 0
    /\ progressLog' = progressLog \o <<Report(100, TRUE), Report(0, FALSE)>>
    /\ pc' = "done"
    /\ UNCHANGED <<inputs, verificationResults, matchedPairs, i, results,
                   fetch, timer, race, resultPair, started, fetches, threw,
                   emitLog, call>>

Next ==
    \/ Start
    \/ BeginPair
    \/ \E k \in DOMAIN fetch : \E response \in Responses :
           FetchSettles(k, response)
    \/ \E k \in DOMAIN fetch : RequestTimeout(k)
    \/ \E k \in DOMAIN timer : TimerFires(k)
    \/ Finish

Spec == Init /\ [][Next]_vars

----------------------------------------------------------------------------
(* The run and its timers, with a pairing that may raise *)

\* Bound of the model: the citations of an analysis in the runs below.
MaxLiveCitations == 2

\* A citation whose text is a number: the pairing raises.
CitNumberText == Citation(Num(7), Undefined, Undefined)

LiveCitationPool == {CitContext, CitSecond, CitNumberText}

LiveBibliographies == {<<>>, <<BibLibrary>>, <<BibLibrary, BibLibrary>>}

InitLive ==
    /\ citations \in SeqsUpTo(LiveCitationPool, MaxLiveCitations)
    /\ bibliography \in LiveBibliographies
    /\ loading = FALSE
    /\ progress = 0
    /\ verificationResults = <<>>
    /\ pc = "idle"
    /\ matchedPairs = <<>>
    /\ i = 0
    /\ results = <<>>
    /\ fetch = <<>>
    /\ timer = <<>>
    /\ race = <<>>
    /\ alerts = <<>>
    /\ resultPair = <<>>
    /\ started = <<>>
    /\ fetches = <<>>
    /\ threw = {}
    /\ emitLog = <<>>
    /\ progressLog = <<>>
    /\ call = NoCall

\* verifyAllCitations with a pairing that raises: the three setters, the
\* catch block of the run with its alert, the finally block.
StartFails ==
    /\ pc = "idle"
    /\ PairingThrows(citations)
    /\ verificationResults' = <<>>
    /\ alerts' = Append(alerts, [kind |-> "RunError"])
    /\ loading' = FALSE
    /\ progress' = 0
    /\ progressLog' = progressLog \o <<Report(0, TRUE), Report(0, FALSE)>>
    /\ pc' = "done"
    /\ UNCHANGED <<inputs, matchedPairs, i, results, fetch, timer, race,
                   resultPair, started, fetches, threw, emitLog, call>>

NextLive ==
    \/ Start
    \/ StartFails
    \/ BeginPair
    \/ \E k \in DOMAIN fetch : \E response \in Responses :
           FetchSettles(k, response)
    \/ \E k \in DOMAIN fetch : RequestTimeout(k)
    \/ \E k \in DOMAIN timer : TimerFires(k)
    \/ Finish

\* The loop goes on whenever it can (its continuations are tasks of the
\* event loop) and every armed timer fires; nothing makes the content store
\* answer, or the request give up.
Fairness ==
    /\ WF_vars(BeginPair)
    /\ WF_vars(Finish)
    /\ \A k \in 1..MaxLiveCitations :
           WF_vars(k \in DOMAIN timer /\ TimerFires(k))

SpecLive == InitLive /\ [][NextLive]_vars /\ Fairness

----------------------------------------------------------------------------
(* The functions of the engine called on their own *)

\* The variables of the run; they keep their initial values while a function
\* is called on its own.
run == <<citations, bibliography, loading, progress, verificationResults, pc,
         matchedPairs, i, results, fetch, timer, race, alerts, resultPair,
         started, fetches, threw, emitLog, progressLog>>

\* The component before any run, without an analysis.
NoRun ==
    /\ citations = <<>> /\ bibliography = <<>>
    /\ loading = FALSE /\ progress = 0 /\ verificationResults = <<>>
    /\ pc = "idle" /\ matchedPairs = <<>> /\ i = 0 /\ results = <<>>
    /\ fetch = <<>> /\ timer = <<>> /\ race = <<>> /\ alerts = <<>>
    /\ resultPair = <<>> /\ started = <<>> /\ fetches = <<>>
    /\ threw = {} /\ emitLog = <<>> /\ progressLog = <<>>

\* Bound of the model: the counts passed to calculateConfidence.
MaxTotal == 10

Counts == 0..MaxTotal

\* calculateConfidence(foundCount, totalCount), and two calls of it.
ScoreCalls ==
    {[op |-> "score", foundCount |-> f, totalCount |-> t, returned |-> FALSE] :
        f \in Counts, t \in Counts}

ScorePairCalls ==
    {[op |-> "scorePair", first |-> a, second |-> b, returned |-> FALSE] :
        a \in {c \in Counts \X Counts : c[1] <= c[2]},
        b \in {c \in Counts \X Counts : c[1] <= c[2]}}

\* Bounds of the model: a text is a run of distinct words followed by a few
\* pieces of other kinds.
MaxFreshWords == 11
MaxPieces == 2

\* The j-th of the distinct words: 'bora', 'vora', 'gora', ...
FreshWord(j) == <<1072 + j, 1086, 1088, 1072>>

RECURSIVE FreshWords(_)
FreshWords(n) ==
    IF n = 0 THEN <<>>
    ELSE FreshWords(n - 1) \o (IF n > 1 THEN <<32>> ELSE <<>>) \o FreshWord(n)

\* 'BORA' (the first word in capitals), 'net' (a stop word), 'Yolka' and
\* 'yolka', 'test', 'ekono1mika' (a digit within the word), 'pri-vet'.
Pieces ==
    {<<1041, 1054, 1056, 1040>>,
     <<1085, 1077, 1090>>,
     <<1025, 1083, 1082, 1072>>,
     <<1105, 1083, 1082, 1072>>,
     <<116, 101, 115, 116>>,
     <<1101, 1082, 1086, 1085, 1086, 49, 1084, 1080, 1082, 1072>>,
     <<1087, 1088, 1080, 45, 1074, 1077, 1090>>}

\* The pieces, each behind ', '.
RECURSIVE JoinPieces(_)
JoinPieces(ps) ==
    IF ps = <<>> THEN <<>>
    ELSE <<44, 32>> \o Head(ps) \o JoinPieces(Tail(ps))

Texts ==
    {Str(FreshWords(n) \o JoinPieces(ps)) :
        n \in 0..MaxFreshWords, ps \in SeqsUpTo(Pieces, MaxPieces)}

\* extractKeywordsFromContext(text): a text, or no string at all.
ExtractCalls ==
    {[op |-> "extract", text |-> t, returned |-> FALSE] :
        t \in Texts \cup {Undefined, JSNull, Num(0), Num(7)}}

\* Bound of the model: the length of a content made of the letters 'a' and
\* 'B' (the Cyrillic ones).
MaxContentLen == 8

Letters == {1072, 1041}

Contents == UNION {[1..n -> Letters] : n \in 0..MaxContentLen}

\* The titles '', 'AAbb', 'AAbb bAbA', 'Abb  AAbb' (a short word and an empty
\* piece) and 'bAbA AAbb'.
Titles ==
    {<<>>,
     <<1040, 1040, 1073, 1073>>,
     <<1040, 1040, 1073, 1073, 32, 1073, 1040, 1073, 1040>>,
     <<1040, 1073, 1073, 32, 32, 1040, 1040, 1073, 1073>>,
     <<1073, 1040, 1073, 1040, 32, 1040, 1040, 1073, 1073>>}

\* The title scrub of checkCitationInSource for a content and a title.
ScrubCalls ==
    {[op |-> "scrub", content |-> c, title |-> t, returned |-> FALSE] :
        c \in Contents, t \in Titles}

\* Bounds of the model: the keywords of one call of findKeywordMatches, and
\* the length of the run of 'a' that ends its content.
MaxMatchKeywords == 2
MaxRun == 104

\* 'aaaa', 'abab', 'bbbb'
MatchKeywords ==
    {<<1072, 1072, 1072, 1072>>, <<1072, 1073, 1072, 1073>>,
     <<1073, 1073, 1073, 1073>>}

\* '', 'ABABAB ' and 'bbb ': what the content begins with.
ContentHeads ==
    {<<>>, <<1040, 1041, 1040, 1041, 1040, 1041, 32>>,
     <<1073, 1073, 1073, 32>>}

MatchContents ==
    {h \o [k \in 1..n |-> 1072] : h \in ContentHeads, n \in 0..MaxRun}

\* findKeywordMatches(keywords, sourceContent)
MatchCalls ==
    {[op |-> "match", keywords |-> ks, content |-> c, returned |-> FALSE] :
        ks \in SeqsUpTo(MatchKeywords, MaxMatchKeywords), c \in MatchContents}

\* The citation '[1]' with the context 'Soglasno issledovaniyu ekonomika
\* razvivaetsya bystro', paired with an entry matched to a library source.
ScenarioPair ==
    [citation |->
         Citation(Str(<<91, 49, 93>>),
                  Str(<<1057, 1086, 1075, 1083, 1072, 1089, 1085, 1086, 32,
                        1080, 1089, 1089, 1083, 1077, 1076, 1086, 1074, 1072,
                        1085, 1080, 1102, 32, 1101, 1082, 1086, 1085, 1086,
                        1084, 1080, 1082, 1072, 32, 1088, 1072, 1079, 1074,
                        1080, 1074, 1072, 1077, 1090, 1089, 1103, 32, 1073,
                        1099, 1089, 1090, 1088, 1086>>),
                  Undefined),
     citation_number |-> 1,
     source |-> BibLibrary]

\* 'ekonomika razvivaetsya'
Phrase ==
    <<1101, 1082, 1086, 1085, 1086, 1084, 1080, 1082, 1072, 32, 1088, 1072,
      1079, 1074, 1080, 1074, 1072, 1077, 1090, 1089, 1103>>

\* n full stops
Filler(n) == [k \in 1..n |-> 46]

\* 'bystro bystro bystro'
ThreeTimes ==
    <<1073, 1099, 1089, 1090, 1088, 1086, 32, 1073, 1099, 1089, 1090, 1088,
      1086, 32, 1073, 1099, 1089, 1090, 1088, 1086>>

\* What the full text holds before the phrase: nothing, 'Rost: ', three
\* keywords more than 500 characters away, 'soglasno' 200 characters away.
Befores ==
    {<<>>,
     <<1056, 1086, 1089, 1090, 58, 32>>,
     ThreeTimes \o Filler(520),
     <<1089, 1086, 1075, 1083, 1072, 1089, 1085, 1086>> \o Filler(200)}

\* What it holds behind the phrase: nothing, ' bystro.', three keywords more
\* than 500 characters away.
Afters ==
    {<<>>,
     <<32, 1073, 1099, 1089, 1090, 1088, 1086, 46>>,
     Filler(520) \o ThreeTimes}

\* The titles of the source: none, 'Kurs', 'Ekonomika Rossii', 'Mir i my',
\* 'Rost'.
ScenarioTitles ==
    {Undefined,
     Str(<<1050, 1091, 1088, 1089>>),
     Str(<<1069, 1082, 1086, 1085, 1086, 1084, 1080, 1082, 1072, 32, 1056,
           1086, 1089, 1089, 1080, 1080>>),
     Str(<<1052, 1080, 1088, 32, 1080, 32, 1084, 1099>>),
     Str(<<1056, 1086, 1089, 1090>>)}

\* The citation '[1]' without context or paragraph: its evidence text is the
\* marker.
MarkerPair ==
    [citation |-> Citation(Str(<<91, 49, 93>>), Undefined, Undefined),
     citation_number |-> 1,
     source |-> BibLibrary]

\* The citation '[1]' with the context 'GDP i mir [1]', which holds no
\* Cyrillic word of four letters.
ShortWordsPair ==
    [citation |->
         Citation(Str(<<91, 49, 93>>),
                  Str(<<71, 68, 80, 32, 1080, 32, 1084, 1080, 1088, 32, 91, 49,
                        93>>),
                  Undefined),
     citation_number |-> 1,
     source |-> BibLibrary]

\* Full texts: '', the phrase, 'EKONOMIKA' in capitals, 'Rost cen', 'GDP i
\* mir'.
VerdictContents ==
    {<<>>,
     Phrase,
     <<1069, 1050, 1054, 1053, 1054, 1052, 1048, 1050, 1040>>,
     <<1056, 1086, 1089, 1090, 32, 1094, 1077, 1085>>,
     <<71, 68, 80, 32, 1080, 32, 1084, 1080, 1088>>}

\* The answers of the content store to the pairs above: a full text without
\* title or titled 'Ekonomika Rossii', no full text, no success, a rejection.
VerdictResponses ==
    {DataResponse(TRUE, Str(c), t) :
        c \in VerdictContents,
        t \in {Undefined,
               Str(<<1069, 1082, 1086, 1085, 1086, 1084, 1080, 1082, 1072, 32,
                     1056, 1086, 1089, 1089, 1080, 1080>>)}}
        \cup {DataResponse(TRUE, Undefined, Undefined),
              DataResponse(FALSE, Undefined, Undefined),
              ErrorResponse}

\* verifyCitationSourcePair behind its request: for the pair of the scenario
\* and a content store that answers with a full text holding the phrase, and
\* for the three pairs and the answers above.
VerifyCalls ==
    {[op |-> "verify", pair |-> ScenarioPair,
      response |-> DataResponse(TRUE, Str(b \o Phrase \o a), t),
      returned |-> FALSE] :
        b \in Befores, a \in Afters, t \in ScenarioTitles}
        \cup {[op |-> "verify", pair |-> pair, response |-> response,
               returned |-> FALSE] :
                 pair \in {ScenarioPair, MarkerPair, ShortWordsPair},
                 response \in VerdictResponses}

\* Bound of the model: the matches of one call of findBestSnippet.
MaxMatches == 2

\* A content of n characters, each one different from the others.
Ruler(n) == [k \in 1..n |-> 2000 + k]

\* The contents: '', 200, 1270 and 1900 characters, and no string at all.
LocateContents ==
    {Str(Ruler(n)) : n \in {0, 200, 1270, 1900}} \cup {Undefined}

\* Twelve positions, 1700 to 1711: more than slice(0, 10) takes.
LongMatch == [k \in 1..12 |-> 1699 + k]

\* The positions of one match, ascending as findAllPositions lists them:
\* none, one, two or twelve.
PositionLists ==
    {<<>>, LongMatch, <<0>>, <<620>>, <<1120>>,
     <<0, 1119>>, <<150, 1120>>, <<620, 1119>>, <<1119, 1120>>}

\* 'rost' found at the positions ps.
KeywordMatch(ps) ==
    [keyword |-> <<1088, 1086, 1089, 1090>>, positions |-> ps]

\* Eleven matches of ten positions each: ten times 0..9, then 10..19; the
\* sorted list has 110 entries, the last ten behind the first 100.
BigMatchList ==
    [m \in 1..11 |->
        KeywordMatch([k \in 1..10 |-> IF m <= 10 THEN k - 1 ELSE k + 9])]

LocateMatchLists ==
    {[m \in DOMAIN pss |-> KeywordMatch(pss[m])] :
        pss \in SeqsUpTo(PositionLists, MaxMatches)} \cup {BigMatchList}

\* findBestSnippet(sourceContent, keywordMatches)
LocateCalls ==
    {[op |-> "locate", sourceContent |-> c,
      keywordMatches |-> ms, returned |-> FALSE] :
        c \in LocateContents, ms \in LocateMatchLists}

\* The values of a field of a citation: absent, '', two spaces, '[7]',
\* ' [7] ', '[7] x', 'Rost', ' Rost ' and the number 7.
FieldValues ==
    {Undefined, Str(<<>>), Str(<<32, 32>>), Str(<<91, 55, 93>>),
     Str(<<32, 91, 55, 93, 32>>), Str(<<91, 55, 93, 32, 120>>),
     Str(<<1056, 1086, 1089, 1090>>), Str(<<32, 1056, 1086, 1089, 1090, 32>>),
     Num(7)}

\* getCitationText of verifyCitationSourcePair for a citation with the
\* number 2 or 12.
EvidenceCalls ==
    {[op |-> "evidence", citation |-> Citation(text, context, paragraph),
      citation_number |-> n, returned |-> FALSE] :
        text \in FieldValues, context \in FieldValues,
        paragraph \in FieldValues, n \in {2, 12}}

Calls ==
    ScoreCalls \cup ScorePairCalls \cup ExtractCalls \cup ScrubCalls
        \cup MatchCalls \cup VerifyCalls \cup LocateCalls \cup EvidenceCalls

InitCalls ==
    /\ NoRun
    /\ call \in Calls

\* The call returns `result`.
Return(result) ==
    call' = [k \in DOMAIN call \cup {"result"} |->
                IF k = "result" THEN result
                ELSE IF k = "returned" THEN TRUE
                ELSE call[k]]

Pending(op) == call.op = op /\ ~call.returned

Score ==
    /\ Pending("score")
    /\ Return(calculateConfidence(call.foundCount, call.totalCount))
    /\ UNCHANGED run

ScorePair ==
    /\ Pending("scorePair")
    /\ Return(<<calculateConfidence(call.first[1], call.first[2]),
                calculateConfidence(call.second[1], call.second[2])>>)
    /\ UNCHANGED run

Extract ==
    /\ Pending("extract")
    /\ Return(extractKeywordsFromContext(call.text))
    /\ UNCHANGED run

Scrub ==
    /\ Pending("scrub")
    /\ Return(ScrubTitle(call.content, call.title))
    /\ UNCHANGED run

Match ==
    /\ Pending("match")
    /\ Return(findKeywordMatches(call.keywords, call.content))
    /\ UNCHANGED run

Verify ==
    /\ Pending("verify")
    /\ Return(ResultAfterFetch(call.pair, call.response))
    /\ UNCHANGED run

\* The call returns or raises; `cluster` is <<bestStart, bestEnd>> behind the
\* cluster loop, or empty when the call did not get there.
Locate ==
    /\ Pending("locate")
    /\ LET raised == findBestSnippetThrows(call.sourceContent,
                                           call.keywordMatches)
           positions == SortedPositions(call.keywordMatches)
           noCluster == \/ raised
                        \/ call.keywordMatches = <<>>
                        \/ call.sourceContent.v = <<>>
                        \/ positions = <<>>
       IN  call' = [op |-> "locate", sourceContent |-> call.sourceContent,
                    keywordMatches |-> call.keywordMatches, returned |-> TRUE,
                    raised |-> raised,
                    result |-> IF raised THEN <<>>
                               ELSE findBestSnippet(call.sourceContent.v,
                                                    call.keywordMatches),
                    cluster |-> IF noCluster THEN <<>>
                                ELSE <<BestCluster(positions).bestStart,
                                       BestCluster(positions).bestEnd>>]
    /\ UNCHANGED run

Evidence ==
    /\ Pending("evidence")
    /\ Return(getCitationText(call.citation, call.citation_number))
    /\ UNCHANGED run

NextCalls ==
    \/ Score
    \/ ScorePair
    \/ Extract
    \/ Scrub
    \/ Match
    \/ Verify
    \/ Locate
    \/ Evidence

SpecCalls == InitCalls /\ [][NextCalls]_vars

----------------------------------------------------------------------------
(* Properties *)

NPairs == Len(matchedPairs)

\* The positions in results of the entries of pair k.
EntriesOf(k) == {j \in DOMAIN results : resultPair[j] = k}

\* Pair k has settled in the loop and the pairs behind it, if any, have been
\* verified by the end of the run.
RunWentOn(k) ==
    /\ race[k] = "settled"
    /\ pc = "done" => \A m \in (k + 1)..NPairs : started[m] = 1

IsErrorEntry(r) ==
    /\ ~r.verification.found
    /\ r.verification.confidence = 0
    /\ r.verification.reason.text = "CheckError"

\* C1: a pair whose verification raised an exception other than the timeout
\* has, at the end of the run, an entry in the result list with found = false,
\* confidence = 0 and a reason describing the error, and the pairs behind it
\* were verified.
C1_ExceptionBecomesEntry ==
    pc = "done" =>
        \A k \in threw :
            /\ \E j \in EntriesOf(k) : IsErrorEntry(results[j])
            /\ RunWentOn(k)

\* The content store has not answered the request of pair k.
NeverAnswered(k) == fetch[k] \in {"inflight", "timedout"}

\* C2: a pair whose request the content store never answers gets, in every
\* order of the pair timer and the request timeout, a result with
\* found = false and the timeout reason holding the position k/N, and the run
\* goes on with the next pair.
C2_TimeoutReasonInEveryOrder ==
    \A k \in DOMAIN race :
        (race[k] = "settled" /\ NeverAnswered(k)) =>
            /\ \E j \in EntriesOf(k) :
                   /\ ~results[j].verification.found
                   /\ results[j].verification.reason
                          = [text |-> "CheckError",
                             message |-> TimeoutMessage(k, NPairs)]
            /\ RunWentOn(k)

\* The request of pair k was rejected, timed out or answered without success.
FetchFailed(k) == fetch[k] \in {"failed", "timedout"}

\* C3: a pair whose content-store request fails still yields a result with
\* has_source_content = false, found = false, confidence = 0 and a reason,
\* and the pairs behind it are verified.
C3_FetchFailureYieldsResult ==
    \A k \in DOMAIN fetch :
        FetchFailed(k) =>
            /\ EntriesOf(k) # {}
            /\ \A j \in EntriesOf(k) :
                   /\ ~results[j].has_source_content
                   /\ ~results[j].verification.found
                   /\ results[j].verification.confidence = 0
                   /\ results[j].verification.reason.text
                          \in {"NoAccess", "CheckError"}
            /\ RunWentOn(k)

C3_Witness ==
    /\ pc = "done"
    /\ \E k \in DOMAIN fetch :
           /\ fetch[k] = "failed"
           /\ k < NPairs
           /\ \E j \in EntriesOf(k) :
                  results[j].verification.reason.text = "NoAccess"

\* s holds a bracketed number from index p to index e.
BracketedNumber(s, p, e) ==
    /\ s[p] = 91
    /\ s[e] = 93
    /\ e > p + 1
    /\ \A d \in (p + 1)..(e - 1) : s[d] \in 48..57

\* The value of the first bracketed number of the citation text: a set with
\* that one value, or the empty set when the text holds none.
FirstMarkerValue(text) ==
    IF text.t # "string" THEN {}
    ELSE LET len == Len(text.v)
             closes(p) == {e \in (p + 2)..len :
                              BracketedNumber(text.v, p, e)}
             opens == {p \in 1..len : text.v[p] = 91 /\ closes(p) # {}}
         IN  IF opens = {} THEN {}
             ELSE LET p == CHOOSE q \in opens : \A r \in opens : q <= r
                  IN  {parseInt(SubSeq(text.v, p + 1, e - 1)) :
                           e \in closes(p)}

\* The entry number each citation is paired with, 0 for a citation that
\* cannot be paired.
EntryNumbers ==
    [c \in DOMAIN citations |->
        LET ns == FirstMarkerValue(citations[c].text)
                      \cap (1..Len(bibliography))
        IN  IF ns = {} THEN 0 ELSE CHOOSE n \in ns : TRUE]

\* The citations that can be paired.
Pairable == {c \in DOMAIN citations : EntryNumbers[c] > 0}

\* C4: the pair list holds, in citation order, exactly one pair (citation,
\* bibliography[n-1]) for each citation whose first marker [n] has
\* 1 <= n <= length of the bibliography; every other citation has no pair
\* and no entry in the results.
C4_PairListIsThePairableCitations ==
    pc # "idle" =>
        LET numbers == EntryNumbers
            pairable == {c \in DOMAIN citations : numbers[c] > 0}
            rank == [c \in pairable |->
                        Cardinality({d \in pairable : d <= c})]
        IN  /\ NPairs = Cardinality(pairable)
            /\ \A c \in pairable :
                   /\ matchedPairs[rank[c]].citation = citations[c]
                   /\ matchedPairs[rank[c]].citation_number = numbers[c]
                   /\ matchedPairs[rank[c]].source = bibliography[numbers[c]]
            /\ Len(results) <= Cardinality(pairable)
            /\ \A j \in DOMAIN results :
                   /\ resultPair[j] \in 1..NPairs
                   /\ \E c \in pairable :
                          /\ rank[c] = resultPair[j]
                          /\ results[j].citation_number = numbers[c]

C4_Witness ==
    /\ pc = "done"
    /\ Len(citations) = 2
    /\ Len(bibliography) = 1
    /\ NPairs = 1
    /\ extractCitationNumber(citations[1].text) = 2
    /\ Len(results) = 1

\* C5: when no citation can be paired the run ends early with the
\* nothing-to-verify alert: no request, no result, no partial list, no
\* summary, not loading; a run that went through the loop ends with the
\* summary instead, also when its result list is empty.
C5_NoPairsEndsEarly ==
    pc # "idle" =>
        IF Pairable = {}
        THEN /\ pc = "done"
             /\ alerts = <<[kind |-> "NoPairs"]>>
             /\ fetches = <<>> /\ started = <<>>
             /\ results = <<>> /\ verificationResults = <<>> /\ emitLog = <<>>
             /\ ~loading
        ELSE pc = "done" =>
                 /\ Len(alerts) = 1
                 /\ alerts[1].kind = "Summary"

C5_Witness ==
    /\ pc = "done"
    /\ Len(citations) = 2
    /\ bibliography # <<>>
    /\ Pairable = {}
    /\ alerts = <<[kind |-> "NoPairs"]>>

\* C6: on completion the result list has exactly one result per pair, the
\* i-th result carries the citation number of the i-th pair, and the summary
\* counts add up: verified + not verified = number of results, verified
\* counting the results with found = true.
C6_OneResultPerPairInOrder ==
    (pc = "done" /\ NPairs > 0) =>
        /\ Len(results) = NPairs
        /\ \A j \in DOMAIN results :
               results[j].citation_number = matchedPairs[j].citation_number
        /\ LET summary == alerts[Len(alerts)]
           IN  /\ summary.total = Len(results)
               /\ summary.verified + summary.notFound = summary.total
               /\ summary.verified
                      = Cardinality({j \in DOMAIN results :
                                        results[j].verification.found})

\* C7: pair k+1 is not started, and its request not sent, before pair k has
\* settled in the loop; at most one race is pending.
C7_OnePairAtATime ==
    /\ \A k \in DOMAIN race :
           (k > 1 /\ (started[k] > 0 \/ fetch[k] # "none")) =>
               race[k - 1] = "settled"
    /\ Cardinality({k \in DOMAIN race : race[k] = "pending"}) <= 1

C7_Witness ==
    \E k \in DOMAIN race :
        /\ k > 1
        /\ fetch[k] = "inflight"
        /\ fetch[k - 1] = "inflight"
        /\ race[k - 1] = "settled"

\* The step settles the loser of the race of pair k: the request of a pair
\* that has timed out, or the timer of a pair that has its result.
LoserSettles(k) ==
    /\ race[k] = "settled"
    /\ \/ fetch[k] = "inflight" /\ fetch'[k] # "inflight"
       \/ timer[k] = "armed" /\ timer'[k] = "fired"

\* C8: the loser of a race changes neither the results, nor the list
\* emitted, nor the progress of the loop.
C8_LoserChangesNothing ==
    [][\A k \in DOMAIN race :
           LoserSettles(k) =>
               UNCHANGED <<results, verificationResults, resultPair, emitLog,
                           i, pc, race, alerts, progress, loading>>]_vars

C8_Witness ==
    /\ Len(results) >= 2
    /\ \E k \in DOMAIN race :
           /\ timer[k] = "fired"
           /\ fetch[k] = "answered"
           /\ \E j \in EntriesOf(k) : IsErrorEntry(results[j])
    /\ \E k \in DOMAIN race :
           /\ timer[k] = "fired"
           /\ fetch[k] = "answered"
           /\ \E j \in EntriesOf(k) : results[j].verification.found

\* C9: after every pair, however it ended, and before the next pair is
\* started, a partial list holding an entry of that pair has been emitted.
C9_PartialListAfterEveryPair ==
    \A k \in DOMAIN race :
        race[k] = "settled" =>
            \E e \in DOMAIN emitLog :
                /\ emitLog[e] # <<>>
                /\ emitLog[e][Len(emitLog[e])] = k

\* C10: the verification of a pair is started at most once and the content
\* store is asked at most once for it, also after its failure or timeout.
C10_NoRetry ==
    \A k \in DOMAIN started : started[k] <= 1 /\ fetches[k] <= 1

C10_Witness ==
    /\ pc = "done"
    /\ \E k \in DOMAIN race :
           /\ fetch[k] = "failed"
           /\ started[k] = 1 /\ fetches[k] = 1
    /\ \E k \in DOMAIN race :
           /\ \E j \in EntriesOf(k) : IsErrorEntry(results[j])
           /\ started[k] = 1 /\ fetches[k] = 1

\* C11: the percentage of the k-th of N pairs, round(k/N * 100), is reported
\* only once the outcome of pair k (result, timeout or error) is known.
C11_ProgressAfterOutcome ==
    \A k \in DOMAIN race :
        (loading /\ progress = ProgressAt(k, NPairs)) => race[k] = "settled"

\* C12: while the run is loading, every reported percentage is an integer in
\* 0..100 and no report is lower than the report before it.
C12_ProgressMonotone ==
    /\ loading => progress \in 0..100
    /\ \A j \in DOMAIN progressLog :
           progressLog[j].loading => progressLog[j].value \in 0..100
    /\ \A j \in 1..(Len(progressLog) - 1) :
           (progressLog[j].loading /\ progressLog[j + 1].loading) =>
               progressLog[j + 1].value >= progressLog[j].value

C12_Witness ==
    /\ pc = "done"
    /\ Len(progressLog) = 5
    /\ [j \in 1..5 |-> progressLog[j].value] = <<0, 50, 100, 100, 0>>
    /\ [j \in 1..5 |-> progressLog[j].loading]
           = <<TRUE, TRUE, TRUE, TRUE, FALSE>>

\* The call of `op` has returned.
Returned(op) == call.op = op /\ call.returned

\* C17: score returns 0 for a total of 0, and else 90 for a ratio above 0.7,
\* 75 above 0.5, 60 above 0.3, 40 above 0.2 and 20 otherwise; a ratio on a
\* threshold gets the lower tier; the result is one of 0, 20, 40, 60, 75, 90.
C17_ScoreTiers ==
    Returned("score") =>
        LET f == call.foundCount
            t == call.totalCount
            above(percent) == 100 * f > percent * t
        IN  /\ call.result \in {0, 20, 40, 60, 75, 90}
            /\ t = 0 => call.result = 0
            /\ t > 0 =>
                   /\ above(70) => call.result = 90
                   /\ (above(50) /\ ~above(70)) => call.result = 75
                   /\ (above(30) /\ ~above(50)) => call.result = 60
                   /\ (above(20) /\ ~above(30)) => call.result = 40
                   /\ ~above(20) => call.result = 20

\* A ratio exactly on the threshold 0.7.
C17_Witness ==
    /\ Returned("score")
    /\ call.foundCount = 7 /\ call.totalCount = 10
    /\ call.result = 75

\* C18: for 0 <= f1 <= t1 and 0 <= f2 <= t2 with positive totals, f1/t1 <=
\* f2/t2 implies score(f1, t1) <= score(f2, t2); a ratio of at most 0.2 with
\* a positive total scores 20, f = 0 included; score(0, 0) = 0.
C18_ScoreMonotone ==
    Returned("scorePair") =>
        LET f1 == call.first[1]
            t1 == call.first[2]
            f2 == call.second[1]
            t2 == call.second[2]
        IN  /\ (t1 > 0 /\ t2 > 0 /\ f1 * t2 <= f2 * t1) =>
                   call.result[1] <= call.result[2]
            /\ (t1 > 0 /\ 5 * f1 <= t1) => call.result[1] = 20
            /\ (f1 = 0 /\ t1 = 0) => call.result[1] = 0

C18_Witness ==
    /\ Returned("scorePair")
    /\ call.first = <<0, 3>> /\ call.second = <<2, 3>>
    /\ call.result = <<20, 75>>

\* A letter of the Russian alphabet, in either case.
IsLetter(c) == LowerChar(c) \in (1072..1103) \cup {1105}

\* The maximal runs of letters of s, as pairs of first and last index.
LetterRuns(s) ==
    LET begins == {p \in 1..Len(s) :
                      IsLetter(s[p]) /\ (p = 1 \/ ~IsLetter(s[p - 1]))}
        endOf(p) == CHOOSE q \in p..Len(s) :
                        /\ \A k \in p..q : IsLetter(s[k])
                        /\ q = Len(s) \/ ~IsLetter(s[q + 1])
    IN  {<<p, endOf(p)>> : p \in begins}

\* The lower-cased word of a run.
WordOf(s, r) == [k \in 1..(r[2] - r[1] + 1) |-> LowerChar(s[r[1] + k - 1])]

\* The tokens of s at their first occurrence: runs of at least 4 letters
\* whose word is no stop word and is the word of no earlier run.
FirstTokens(s) ==
    LET tokens == {r \in LetterRuns(s) :
                      r[2] - r[1] + 1 >= 4 /\ WordOf(s, r) \notin stopWords}
    IN  {r \in tokens :
            \A e \in tokens : e[1] < r[1] => WordOf(s, e) # WordOf(s, r)}

\* C16: for a string, extract returns the first 10 distinct tokens of the
\* lower-cased text in first-seen order, a token being a maximal run of at
\* least 4 Cyrillic letters that is no stop word: at most 10 entries, no
\* duplicates, each of length >= 4 and none a stop word.  For an absent,
\* empty or non-string input it returns the empty sequence and does not
\* raise.
C16_ExtractFirstTenTokens ==
    Returned("extract") =>
        IF call.text.t = "string"
           THEN LET s == call.text.v
                    firsts == FirstTokens(s)
                    rank(r) == Cardinality({e \in firsts : e[1] <= r[1]})
                    out == call.result
                IN  /\ Len(out) = Min(10, Cardinality(firsts))
                    /\ \A r \in firsts :
                           rank(r) <= 10 => out[rank(r)] = WordOf(s, r)
                    /\ \A a \in DOMAIN out :
                           /\ Len(out[a]) >= 4
                           /\ out[a] \notin stopWords
                           /\ \A b \in DOMAIN out : out[a] = out[b] => a = b
           ELSE call.result = <<>>

\* Ten words, the first one again in capitals, then an eleventh word: the
\* duplicate is dropped and the list is cut behind the tenth word.
C16_Witness ==
    /\ Returned("extract")
    /\ call.text = Str(FreshWords(10)
                       \o JoinPieces(<<<<1041, 1054, 1056, 1040>>,
                                       <<1025, 1083, 1082, 1072>>>>))
    /\ Cardinality(FirstTokens(call.text.v)) = 11
    /\ Len(call.result) = 10
    /\ call.result[10] = FreshWord(10)

\* The space-separated words of a title, as pairs of first and last index.
TitleWords(title) ==
    {r \in (1..Len(title)) \X (1..Len(title)) :
        /\ r[1] <= r[2]
        /\ \A k \in r[1]..r[2] : title[k] # 32
        /\ r[1] = 1 \/ title[r[1] - 1] = 32
        /\ r[2] = Len(title) \/ title[r[2] + 1] = 32}

\* The content holds the word at index p, whatever the case.
HoldsAt(content, word, p) ==
    /\ p + Len(word) - 1 <= Len(content)
    /\ \A k \in 1..Len(word) :
           LowerChar(content[p + k - 1]) = LowerChar(word[k])

\* C19: the scrubbed content holds no case-insensitive occurrence of any
\* space-separated word of the title that is longer than 3 characters.
C19_ScrubLeavesNoTitleWord ==
    Returned("scrub") =>
        \A r \in TitleWords(call.title) :
            r[2] - r[1] + 1 > 3 =>
                \A p \in 1..Len(call.result) :
                    ~HoldsAt(call.result, SubSeq(call.title, r[1], r[2]), p)

\* The 0-based offsets at which the content holds the keyword, whatever the
\* case.
Occurrences(content, keyword) ==
    {o \in 0..Len(content) : HoldsAt(content, keyword, o + 1)}

\* C20: match returns, in keyword order, one KeywordMatch for exactly the
\* keywords that occur case-insensitively in the content; each match has a
\* non-empty, strictly ascending positions list: the starting offsets of all
\* occurrences of the keyword, overlapping ones included, cut to the first
\* 100.
C20_MatchListsAllOccurrences ==
    Returned("match") =>
        LET ks == call.keywords
            occ(a) == Occurrences(call.content, ks[a])
            hits == {a \in DOMAIN ks : occ(a) # {}}
            rank(a) == Cardinality({b \in hits : b <= a})
            out == call.result
        IN  /\ Len(out) = Cardinality(hits)
            /\ \A a \in hits :
                   LET m == out[rank(a)]
                       all == occ(a)
                   IN  /\ m.keyword = ks[a]
                       /\ m.positions # <<>>
                       /\ Len(m.positions) = Min(100, Cardinality(all))
                       /\ \A n \in DOMAIN m.positions :
                              /\ m.positions[n] \in all
                              /\ Cardinality({o \in all : o < m.positions[n]})
                                     = n - 1

\* 'bbbb' is absent, 'aaaa' occurs 101 times, each occurrence one offset
\* behind the one before: the list is cut to the offsets 0..99.
C20_Witness ==
    /\ Returned("match")
    /\ call.keywords = <<<<1073, 1073, 1073, 1073>>, <<1072, 1072, 1072, 1072>>>>
    /\ call.content = [k \in 1..104 |-> 1072]
    /\ Len(call.result) = 1
    /\ call.result[1].positions = [n \in 1..100 |-> n - 1]

\* The tags of the reasons, each a non-empty message of the code.
Reasons ==
    {"NoAccess", "InvalidCitationText", "NotInMainText", "NotInSource",
     "CheckError"}

IsSequence(x) == DOMAIN x = 1..Len(x)

\* The two shapes of a verification outcome.
IsNotFoundOutcome(v) ==
    /\ DOMAIN v = {"found", "reason", "confidence"}
    /\ v.found = FALSE
    /\ v.reason.text \in Reasons
    /\ v.confidence = 0

IsFoundOutcome(v) ==
    /\ DOMAIN v = {"found", "confidence", "match_type", "keyword_matches",
                   "best_snippet", "total_keywords_found",
                   "total_keywords_searched"}
    /\ v.found = TRUE
    /\ v.confidence \in 0..100
    /\ v.match_type = "semantic"
    /\ IsSequence(v.keyword_matches)
    /\ \A m \in DOMAIN v.keyword_matches :
           /\ DOMAIN v.keyword_matches[m] = {"keyword", "positions"}
           /\ IsSequence(v.keyword_matches[m].positions)
    /\ IsSequence(v.best_snippet)
    /\ v.total_keywords_found \in Nat
    /\ v.total_keywords_searched \in Nat

\* C15: the verification outcome of every result, in the result list and in
\* every list emitted, on every path, is a not-found outcome (found = false,
\* a non-empty reason, confidence = 0) or a found outcome (found = true,
\* confidence in 0..100, match_type "semantic", keyword_matches,
\* best_snippet and the two totals).
C15_OutcomeShapes ==
    /\ \A j \in DOMAIN results :
           \/ IsNotFoundOutcome(results[j].verification)
           \/ IsFoundOutcome(results[j].verification)
    /\ \A j \in DOMAIN verificationResults :
           \/ IsNotFoundOutcome(verificationResults[j].verification)
           \/ IsFoundOutcome(verificationResults[j].verification)

\* A run that ends with a found outcome and the outcome of a failed request.
C15_Witness ==
    /\ pc = "done"
    /\ verificationResults = results
    /\ Len(results) = 2
    /\ IsFoundOutcome(results[1].verification)
    /\ IsNotFoundOutcome(results[2].verification)
    /\ results[2].verification.reason.text = "NoAccess"

\* s holds the sequence w verbatim.
Contains(s, w) ==
    \E p \in 1..(Len(s) - Len(w) + 1) : \A k \in 1..Len(w) : s[p + k - 1] = w[k]

\* C14: for the citation '[1]' with the context of scenario 1 and an entry
\* mapped to a library source, for every title of the source and every full
\* text that holds the phrase verbatim, the result has found = true,
\* confidence >= 60 and a best_snippet that holds the phrase.
C14_ScenarioOne ==
    (/\ Returned("verify")
     /\ call.response.kind = "data"
     /\ IsString(call.response.full_content)
     /\ Contains(call.response.full_content.v, Phrase)) =>
        LET v == call.result.verification
        IN  /\ v.found
            /\ v.confidence >= 60
            /\ Contains(v.best_snippet, Phrase)

\* C21: for every content string and every match list, locate returns a
\* string of at most content.length + 2 * 150 + 2 * (length of the ellipsis)
\* characters, and it does not raise, empty content and empty match list
\* included.
C21_LocateLengthAndNoRaise ==
    (Returned("locate") /\ IsString(call.sourceContent)) =>
        /\ ~call.raised
        /\ Len(call.result) <= Len(call.sourceContent.v) + 2 * SnippetContext
                                   + 2 * Len(Ellipsis)

\* The empty content with a match at offset 0: the ellipsis alone.
C21_Witness ==
    /\ Returned("locate")
    /\ call.sourceContent = Str(<<>>)
    /\ call.keywordMatches = <<KeywordMatch(<<0>>)>>
    /\ ~call.raised
    /\ call.result = Ellipsis

\* The positions locate takes: the k-th position of the m-th match, k <= 10.
Taken(ms) ==
    UNION {{<<m, k>> : k \in 1..Min(PositionsPerMatch, Len(ms[m].positions))} :
              m \in DOMAIN ms}

\* L lists the taken positions, each as often as it was taken, in ascending
\* order.
IsSortedListOf(L, ms) ==
    /\ Len(L) = Cardinality(Taken(ms))
    /\ \A k \in 1..(Len(L) - 1) : L[k] <= L[k + 1]
    /\ \A t \in Taken(ms) :
           LET v == ms[t[1]].positions[t[2]]
           IN  Cardinality({k \in DOMAIN L : L[k] = v})
                   = Cardinality({u \in Taken(ms) :
                                     ms[u[1]].positions[u[2]] = v})

\* The entries a..b of E are a run: every two neighbours differ by less than
\* 500.
IsRun(E, a, b) == \A k \in a..(b - 1) : E[k + 1] - E[k] < ClusterGap

\* C24: over the first 10 positions of each match, sorted ascending and cut
\* to the first 100 entries, locate selects a longest run of consecutive
\* entries whose neighbours differ by less than 500, and among the runs of
\* that length the earliest one.
C24_EarliestLongestRun ==
    (Returned("locate") /\ call.cluster # <<>>) =>
        LET L == SortedPositions(call.keywordMatches)
            E == SubSeq(L, 1, Min(Len(L), MaxClusterScan))
        IN  /\ IsSortedListOf(L, call.keywordMatches)
            /\ \E a \in DOMAIN E : \E b \in a..Len(E) :
                   /\ E[a] = call.cluster[1]
                   /\ E[b] = call.cluster[2]
                   /\ IsRun(E, a, b)
                   /\ \A c \in DOMAIN E : \A d \in c..Len(E) :
                          IsRun(E, c, d) =>
                              \/ d - c < b - a
                              \/ d - c = b - a /\ c >= a

\* Two runs of two entries, 0 and 150, 1119 and 1120: the first one is kept.
C24_Witness ==
    /\ Returned("locate")
    /\ call.sourceContent = Str(Ruler(1900))
    /\ call.keywordMatches
           = <<KeywordMatch(<<0, 1119>>), KeywordMatch(<<150, 1120>>)>>
    /\ call.cluster = <<0, 150>>

\* The content between 150 characters before offset first and 150
\* characters behind offset last, clamped to the content.
Window(content, first, last) ==
    SubSeq(content, Max(0, first - SnippetContext) + 1,
           Min(Len(content), last + SnippetContext))

\* C25: the snippet is the content from 150 characters before the first
\* position of the selected cluster to 150 characters behind its last
\* position, clamped to the content, with an ellipsis in front of it when
\* the window was clamped at the start and one behind it when the window was
\* clamped at the end.
C25_EllipsisWhereClamped ==
    (Returned("locate") /\ call.cluster # <<>>) =>
        LET content == call.sourceContent.v
            first == call.cluster[1]
            last == call.cluster[2]
        IN  call.result
                = (IF first - SnippetContext < 0 THEN Ellipsis ELSE <<>>)
                  \o Window(content, first, last)
                  \o (IF last + SnippetContext > Len(content) THEN Ellipsis
                      ELSE <<>>)

\* C25 as amended: the ellipsis is put in front of the snippet when the
\* window begins behind the start of the content, and behind the snippet
\* when the window ends before the end of the content: on the sides on which
\* content was left out.
C25_EllipsisWhereContentLeftOut ==
    (Returned("locate") /\ call.cluster # <<>>) =>
        LET content == call.sourceContent.v
            first == call.cluster[1]
            last == call.cluster[2]
        IN  call.result
                = (IF first - SnippetContext > 0 THEN Ellipsis ELSE <<>>)
                  \o Window(content, first, last)
                  \o (IF last + SnippetContext < Len(content) THEN Ellipsis
                      ELSE <<>>)

\* The cluster 620..1120 in a content of 1900 characters: the characters
\* 470 to 1270, between two ellipses.
C25_Witness ==
    /\ Returned("locate")
    /\ call.sourceContent = Str(Ruler(1900))
    /\ call.keywordMatches
           = <<KeywordMatch(<<620, 1119>>), KeywordMatch(<<1120>>)>>
    /\ call.cluster = <<620, 1120>>
    /\ call.result = Ellipsis \o SubSeq(Ruler(1900), 471, 1270) \o Ellipsis

\* C26: with an empty match list or an empty content locate returns the
\* first 300 characters of the content followed by an ellipsis, or the
\* content itself, unchanged, when it is shorter than 300 characters.
C26_FallbackLeavesShortContent ==
    (/\ Returned("locate")
     /\ IsString(call.sourceContent)
     /\ (call.keywordMatches = <<>> \/ call.sourceContent.v = <<>>)) =>
        LET content == call.sourceContent.v
        IN  call.result = IF Len(content) < FallbackLen THEN content
                          ELSE SubSeq(content, 1, FallbackLen) \o Ellipsis

\* C26 as amended: locate returns the first 300 characters of the content,
\* the whole content when it is shorter, followed by an ellipsis in both
\* cases.
C26_FallbackAlwaysEllipsis ==
    (/\ Returned("locate")
     /\ IsString(call.sourceContent)
     /\ (call.keywordMatches = <<>> \/ call.sourceContent.v = <<>>)) =>
        LET content == call.sourceContent.v
        IN  call.result
                = SubSeq(content, 1, Min(Len(content), FallbackLen))
                  \o Ellipsis

\* A content of 200 characters without matches: the content and an ellipsis.
C26_Witness ==
    /\ Returned("locate")
    /\ call.sourceContent = Str(Ruler(200))
    /\ call.keywordMatches = <<>>
    /\ call.result = Ruler(200) \o Ellipsis

\* s holds nothing but white space.
Blank(s) == \A k \in DOMAIN s : IsSpace(s[k])

\* s is a bracket marker '[digits]' between white space.
MarkerBetweenSpaces(s) ==
    \E a \in DOMAIN s : \E b \in (a + 2)..Len(s) :
        /\ \A k \in 1..(a - 1) : IsSpace(s[k])
        /\ \A k \in (b + 1)..Len(s) : IsSpace(s[k])
        /\ s[a] = 91
        /\ s[b] = 93
        /\ \A k \in (a + 1)..(b - 1) : s[k] \in 48..57

\* A field that holds evidence: a string that is neither blank nor, once
\* trimmed, a bare marker.
HoldsEvidence(field) ==
    /\ IsString(field)
    /\ ~Blank(field.v)
    /\ ~MarkerBetweenSpaces(field.v)

\* C22: the evidence text of a pair is the first of citation.context,
\* citation.full_paragraph and citation.text that is not blank after
\* trimming and is not exactly a bracket marker; if none of the three
\* qualifies it is the marker '[n]' of the pair's citation number.  Stated
\* for fields that are strings or absent.
C22_EvidenceByPriority ==
    (/\ Returned("evidence")
     /\ \A f \in {call.citation.context, call.citation.full_paragraph,
                   call.citation.text} : f.t \in {"string", "undefined"}) =>
        LET fields == <<call.citation.context, call.citation.full_paragraph,
                        call.citation.text>>
            holding == {k \in 1..3 : HoldsEvidence(fields[k])}
        IN  call.result
                = IF holding = {}
                  THEN Str(<<91>> \o ToDecimal(call.citation_number) \o <<93>>)
                  ELSE fields[CHOOSE k \in holding : \A m \in holding : k <= m]

\* A blank context, the paragraph ' [7] ' and the text ' Rost ': the text,
\* with its spaces.
C22_Witness ==
    /\ Returned("evidence")
    /\ call.citation.context = Str(<<32, 32>>)
    /\ call.citation.full_paragraph = Str(<<32, 91, 55, 93, 32>>)
    /\ call.citation.text = Str(<<32, 1056, 1086, 1089, 1090, 32>>)
    /\ call.result = Str(<<32, 1056, 1086, 1089, 1090, 32>>)

\* The display title of an entry that has no library source: its online
\* title, or else the first 100 characters of its text.
TitleWithoutLibrary(source) ==
    IF IsString(source.online_title) /\ source.online_title.v # <<>>
    THEN source.online_title
    ELSE Str([m \in 1..Min(100, Len(source.text.v)) |-> source.text.v[m]])

HasCyrillicWord(s) ==
    \E p \in 1..(Len(s) - 3) :
        \A k \in 0..3 : LowerChar(s[p + k]) \in (1072..1103) \cup {1105}

\* C27: a result has found = true if and only if the resolved source content
\* is not empty and at least one keyword extracted from the evidence text
\* occurs in the title-scrubbed content; then 1 <= total_keywords_found =
\* length of keyword_matches <= total_keywords_searched <= 10 and the
\* confidence is one of 20, 40, 60, 75, 90; an evidence text without a
\* Cyrillic word of four letters is reported as not found.
C27_FoundIffKeywordInScrubbedContent ==
    (Returned("verify") /\ ~IsNullResult(call.result)) =>
        LET r == call.result
            v == r.verification
            keywords == extractKeywordsFromContext(r.citation_text)
            scrubbed ==
                toLowerCase(ScrubTitle(r.source_content.v, r.source_title.v))
            occurring ==
                {k \in DOMAIN keywords : Contains(scrubbed, keywords[k])}
        IN  /\ v.found <=> (r.source_content.v # <<>> /\ occurring # {})
            /\ v.found =>
                   /\ 1 <= v.total_keywords_found
                   /\ v.total_keywords_found = Len(v.keyword_matches)
                   /\ v.total_keywords_found <= v.total_keywords_searched
                   /\ v.total_keywords_searched <= 10
                   /\ v.confidence \in {20, 40, 60, 75, 90}
            /\ ~HasCyrillicWord(r.citation_text.v) => ~v.found

\* The full text 'EKONOMIKA', found with fewer keywords than searched.
C27_Witness ==
    /\ Returned("verify")
    /\ ~IsNullResult(call.result)
    /\ call.result.verification.found
    /\ call.result.verification.total_keywords_found
           < call.result.verification.total_keywords_searched
    /\ call.result.source_content.v
           = <<1069, 1050, 1054, 1053, 1054, 1052, 1048, 1050, 1040>>

\* The text the content store returned with `response`: its full_content if
\* the request succeeded with one, and else none.
TextReturned(response) ==
    IF response.kind = "data" /\ response.success
       /\ IsString(response.full_content)
    THEN response.full_content
    ELSE Str(<<>>)

\* Every entry of the list: found implies has_source_content, and
\* has_source_content implies that source_id is the library source id of the
\* entry of the pair, which is a string and not empty.
ContentFlags ==
    \A j \in DOMAIN results :
        LET e == results[j]
            source == matchedPairs[resultPair[j]].source
        IN  /\ e.verification.found => e.has_source_content
            /\ e.has_source_content =>
                   /\ "source_id" \in DOMAIN e
                   /\ e.source_id = source.library_source_id
                   /\ IsString(e.source_id)
                   /\ e.source_id.v # <<>>

\* The result appended when the request of a pair settles carries the text
\* the content store returned, as it was returned.
ContentAsReturned ==
    \A k \in DOMAIN fetch : \A response \in Responses :
        (FetchSettles(k, response) /\ Len(results') = Len(results) + 1) =>
            LET e == results'[Len(results')]
            IN  /\ e.source_content = TextReturned(response)
                /\ e.has_source_content <=> TextReturned(response).v # <<>>

\* C28: in every result of every run, found = true implies
\* has_source_content = true; has_source_content = true implies that
\* source_id is the non-null library source id of the entry of the pair; and
\* source_content is the text returned by the content store, not altered by
\* title scrubbing.
C28_ResultContent == []ContentFlags /\ [][ContentAsReturned]_vars

\* A result with the full text 'rost cen i rost ekonomiki' of the source
\* titled 'Rost', found, with the word of the title still in it.
C28_Witness ==
    \E j \in DOMAIN results :
        /\ results[j].verification.found
        /\ results[j].has_source_content
        /\ results[j].source_title = Str(<<1056, 1086, 1089, 1090>>)
        /\ results[j].source_content
               = Str(<<1088, 1086, 1089, 1090, 32, 1094, 1077, 1085, 32, 1080,
                       32, 1088, 1086, 1089, 1090, 32, 1101, 1082, 1086, 1085,
                       1086, 1084, 1080, 1082, 1080>>)
        /\ results[j].source_id = Str(<<115, 49>>)

\* list is `before` with one entry more at its end.
OneMore(before, list) ==
    /\ Len(list) = Len(before) + 1
    /\ \A j \in DOMAIN before : list[j] = before[j]

\* A step that passes a list to setVerificationResults: the empty list at
\* the start of the run, and else the list last passed with one entry more.
EmitsOneMore ==
    /\ (pc = "idle" /\ pc' # "idle") => verificationResults' = <<>>
    /\ verificationResults' # verificationResults =>
           /\ pc # "idle"
           /\ OneMore(verificationResults, verificationResults')
    /\ emitLog' # emitLog =>
           /\ Len(emitLog') = Len(emitLog) + 1
           /\ OneMore(verificationResults, verificationResults')
    /\ (pc # "done" /\ pc' = "done" /\ NPairs > 0) =>
           alerts' = Append(alerts, showVerificationSummary(verificationResults))

\* C30: during a run the results list is append-only: it is emptied once, at
\* the start of the run; each partial list emitted afterwards is the list
\* emitted before it plus exactly one new entry at its end; an entry once
\* emitted is never changed or removed; and the list used for the completion
\* summary is the last list emitted.
C30_AppendOnly ==
    /\ [][EmitsOneMore]_vars
    /\ [](pc # "idle" => verificationResults = results)

\* A finished run that emitted two lists, of one and of two entries, the two
\* entries being different.
C30_Witness ==
    /\ pc = "done"
    /\ Len(emitLog) = 2
    /\ Len(verificationResults) = 2
    /\ verificationResults[1] # verificationResults[2]
    /\ alerts[Len(alerts)].total = 2

\* C29: every started run eventually stops loading, under fair firing of
\* the timers, even if the content store never answers any request; and on
\* every exit path (no pairs, normal completion, run-level error) the run
\* ends with loading = false and the progress reset to 0.
C29_RunStopsLoading ==
    /\ loading ~> (pc = "done" /\ ~loading)
    /\ [](pc = "done" =>
             /\ ~loading
             /\ progress = 0
             /\ progressLog[Len(progressLog)] = Report(0, FALSE)
             /\ alerts # <<>>
             /\ alerts[Len(alerts)].kind \in {"NoPairs", "Summary", "RunError"})

\* A finished run of two pairs whose requests were never answered: both
\* entries come from the timers.
C29_Witness ==
    /\ pc = "done"
    /\ ~loading
    /\ progress = 0
    /\ NPairs = 2
    /\ \A k \in DOMAIN fetch : fetch[k] = "inflight" /\ timer[k] = "fired"
    /\ \A j \in DOMAIN results : IsErrorEntry(results[j])

====
